---- MODULE Spec2Model ----
(***************************************************************************)
(* Model of the broker selector (broker_selector.py), the IBKR adapter     *)
(* (ibkr_trading_system.py) and the real-time MACD trader                  *)
(* (Redundant/realtime_macd_trader.py).                                    *)
(*                                                                         *)
(* Four specifications share the variables:                                *)
(*   Spec            the BrokerSelector / UnifiedTradingSystem object;     *)
(*   SpecIbkr        the IBKR order path of a selector connected to IBKR;  *)
(*   SpecTrader      the polling loop of one RealTimeMACDTrader;           *)
(*   SpecPlaceOrder  RealTimeMACDTrader.place_order called directly.       *)
(* Python's None is the string "None"; a call's outcome is a record        *)
(* [kind |-> "return" | "raise", exc |-> exception class, value |-> ...].  *)
(***************************************************************************)
EXTENDS Integers, Sequences, FiniteSets, TLC

VARIABLES
    \* ---- BrokerSelector / UnifiedTradingSystem --------------------------
    sel_pc,          \* "unbuilt", "live", "dead" (the constructor raised), "exited"
    force_broker,    \* self.force_broker
    current_broker,  \* self.current_broker
    broker_type,     \* self.broker_type
    trading_client,  \* self.trading_client
    data_client,     \* self.data_client
    extended_hours,  \* EXTENDED_HOURS as read by the selector and the IBKR system
    overnight_trading, \* OVERNIGHT_TRADING as read by UnifiedTradingSystem.__init__
    call,            \* the most recent call on the selector and what it did
    ib_orders,       \* the orders the most recent call handed to ib.placeOrder
    strategy_state,  \* the IBKR strategy-state file of the symbol
    ib_sys,          \* an IBKRTradingSystem: is_connected, its session, its last call
    \* ---- RealTimeMACDTrader ---------------------------------------------
    t_cfg,           \* shares_per_trade, extended_hours, overnight_trading
    t_state,         \* position_type, position_shares, last_action, last_signal_time
    tick,            \* what the most recent process_macd_signal call saw and did
    placed,          \* what the most recent direct place_order call did
    run_orders,      \* orders submitted in the current run of unchanged ticks
    clock,           \* the instant last classified and what the session tests said
    priced,          \* a quote and the limit price place_order derives from it
    signal_state     \* the symbol's SignalState and the sample that last changed it

sel_vars == <<sel_pc, force_broker, current_broker, broker_type, trading_client,
              data_client, extended_hours, overnight_trading, call, ib_orders,
              strategy_state, ib_sys>>
trader_vars == <<t_cfg, t_state, tick, placed, run_orders, clock, priced, signal_state>>
vars == <<sel_vars, trader_vars>>

None == "None"

\* ------------------------------------------------------------------ bounds
MaxQty == 2       \* largest position size (shares) the broker reports
MaxShares == 2    \* largest shares_per_trade / signal share count
MaxMacd == 2      \* largest MACD / signal-line value of a sample, in ticks of price
MaxSamples == 3   \* the count of classified samples stops here
MaxPrice == 120   \* largest bid / ask of a quote to price from, in cents
MaxSymbols == 2   \* the number of symbols the continuous loop trades

\* ------------------------------------------------------------ calendar time
\* An instant is a weekday (Monday = 0 .. Sunday = 6) and a minute of the day.
\* The minutes are the session boundaries, their neighbours, and a minute
\* inside every session.
BoundaryMinutes ==
    {0, 120, 239, 240, 400, 569, 570, 800, 959, 960, 961, 1100, 1199, 1200, 1300, 1439}
Instants == [wd : 0..6, m : BoundaryMinutes]

\* The instants at which the model lets an order-placing call happen: one or
\* more in every session, the session boundaries, and the weekend.
At(wd, m) == [wd |-> wd, m |-> m]
CallInstants ==
    {At(0, 0), At(0, 240), At(0, 570), At(0, 960), At(0, 1200), At(4, 1200),
     At(5, 570), At(6, 1200)}

\* S when an input is read by the call, else the one value d.
Relevant(cond, S, d) == IF cond THEN S ELSE {d}

is_market_hours(dt) == dt.wd <= 4 /\ 570 <= dt.m /\ dt.m < 960

is_pre_market(dt) == dt.wd <= 4 /\ 240 <= dt.m /\ dt.m < 570

\* A variant of is_after_hours that includes 20:00.
is_after_hours_until_2000(dt) == dt.wd <= 4 /\ 960 <= dt.m /\ dt.m <= 1200

is_after_hours(dt) == dt.wd <= 4 /\ 960 <= dt.m /\ dt.m < 1200

is_overnight(dt) ==
    IF dt.m >= 1200 THEN dt.wd < 4
    ELSE IF dt.m < 240 THEN dt.wd <= 4
    ELSE FALSE

\* The session place_order logs for an instant.
SessionOf(dt) ==
    IF is_market_hours(dt) THEN "REGULAR"
    ELSE IF is_pre_market(dt) THEN "PRE_MARKET"
    ELSE IF is_after_hours(dt) THEN "AFTER_HOURS"
    ELSE IF is_overnight(dt) THEN "OVERNIGHT"
    ELSE "CLOSED"

\* IBKRTradingSystem.get_clock().is_open
ClockIsOpen(dt) == 570 <= dt.m /\ dt.m <= 960

\* --------------------------------------------------------------- outcomes
Return(v) == [kind |-> "return", exc |-> None, value |-> v]
Raise(exc, msg) == [kind |-> "raise", exc |-> exc, value |-> msg]
NoBrokerConnected == Raise("ConnectionError", "No broker connected")

\* What a call did to broker connections, in order: a connection attempt
\* ("try") or the teardown of the current broker, and whether it succeeded.
Event(ev, broker, ok) == [ev |-> ev, broker |-> broker, ok |-> ok]

\* str.upper() on the broker names a caller may pass.
BrokerNames == {"IBKR", "ALPACA", "ibkr", "alpaca", "TDA"}
Upper(s) ==
    CASE s = "ibkr" -> "IBKR"
      [] s = "alpaca" -> "ALPACA"
      [] s = "auto" -> "AUTO"
      [] OTHER -> s

\* What one connection attempt can meet.
IbkrOutcomes == {"connected", "refused", "import_error", "exception"}
AlpacaOutcomes == {"account", "no_account", "exception"}

Disconnected ==
    [cb |-> None, bt |-> None, tc |-> None, dc |-> None]

\* _try_ibkr: the fields after the attempt and its return value.
TryIbkr(f, outcome) ==
    IF outcome = "connected"
    THEN [f |-> [cb |-> "IBKRTradingSystem", bt |-> "IBKR",
                 tc |-> "IBKRTradingClient", dc |-> "IBKRTradingSystem"],
          ok |-> TRUE]
    ELSE [f |-> f, ok |-> FALSE]

\* _try_alpaca: the fields after the attempt and its return value.
TryAlpaca(f, outcome) ==
    IF outcome = "account"
    THEN [f |-> [cb |-> "AlpacaTradingSystem", bt |-> "ALPACA",
                 tc |-> "alpaca.trading_client", dc |-> "alpaca.data_client"],
          ok |-> TRUE]
    ELSE [f |-> f, ok |-> FALSE]

\* BrokerSelector.__init__, line 44: the argument wins, else FORCE_BROKER upper-cased.
ForceBroker(arg, env) == IF arg # None THEN arg ELSE Upper(env)

\* _initialize_brokers, forced IBKR (lines 52-55): the fields after it, the
\* connection attempts it made, in order, and its outcome.
ForcedIbkr(f, oi) ==
    LET r == TryIbkr(f, oi) IN
    [f |-> r.f, log |-> <<Event("try", "IBKR", r.ok)>>,
     out |-> IF r.ok THEN Return(None)
             ELSE Raise("ConnectionError", "Could not connect to IBKR (forced mode)")]

\* _initialize_brokers, forced Alpaca (lines 56-59).
ForcedAlpaca(f, oa) ==
    LET r == TryAlpaca(f, oa) IN
    [f |-> r.f, log |-> <<Event("try", "ALPACA", r.ok)>>,
     out |-> IF r.ok THEN Return(None)
             ELSE Raise("ConnectionError", "Could not connect to Alpaca (forced mode)")]

\* _initialize_brokers, AUTO mode (lines 60-67): IBKR, then Alpaca.
AutoMode(f, oi, oa) ==
    LET r == TryIbkr(f, oi) IN
    IF r.ok
    THEN [f |-> r.f, log |-> <<Event("try", "IBKR", TRUE)>>, out |-> Return(None)]
    ELSE LET s == TryAlpaca(r.f, oa) IN
         [f |-> s.f,
          log |-> <<Event("try", "IBKR", FALSE), Event("try", "ALPACA", s.ok)>>,
          out |-> IF s.ok THEN Return(None)
                  ELSE Raise("ConnectionError",
                             "Could not connect to any broker (IBKR or Alpaca)")]

\* A variant of _initialize_brokers in which AUTO mode stops after IBKR.
InitializeBrokersNoFallback(force, f, oi, oa) ==
    IF force = "ALPACA" THEN ForcedAlpaca(f, oa) ELSE ForcedIbkr(f, oi)

\* A variant of _initialize_brokers that ignores the forced broker.
InitializeBrokersIgnoringForce(force, f, oi, oa) ==
    AutoMode(f, oi, oa)

\* _initialize_brokers from fields f.
InitializeBrokers(force, f, oi, oa) ==
    IF force = "IBKR" THEN ForcedIbkr(f, oi)
    ELSE IF force = "ALPACA" THEN ForcedAlpaca(f, oa)
    ELSE AutoMode(f, oi, oa)

Fields == [cb |-> current_broker, bt |-> broker_type,
           tc |-> trading_client, dc |-> data_client]

SetFields(f) ==
    /\ current_broker' = f.cb
    /\ broker_type' = f.bt
    /\ trading_client' = f.tc
    /\ data_client' = f.dc

\* The record of a call: the operation, its argument, its outcome, what it did
\* to broker connections, whether it reached the current broker, and
\* broker_type before it.
Call(op, arg, out, log, delegated) ==
    [op |-> op, arg |-> arg, out |-> out, log |-> log, delegated |-> delegated,
     pre_type |-> broker_type]

\* An IBKRTradingSystem as __init__ leaves it (is_connected = False, line 59),
\* no call made on it yet.
NoIbSys ==
    [is_connected |-> FALSE, session_open |-> FALSE, op |-> None, was_connected |-> FALSE,
     ret |-> "None", connects |-> 0, api_calls |-> 0, api_error |-> FALSE]

NoCall == [op |-> None, arg |-> None, out |-> Return(None), log |-> <<>>,
           delegated |-> FALSE, pre_type |-> None]

\* ------------------------------------------------------- selector actions
\* BrokerSelector.__init__ / UnifiedTradingSystem.__init__
Construct ==
    /\ sel_pc = "unbuilt"
    /\ \E arg \in {None, "IBKR", "ALPACA", "ibkr"}, env \in {"AUTO", "auto", "alpaca"},
          eh \in BOOLEAN, ot \in BOOLEAN :
       \E force \in {ForceBroker(arg, env)} :
       \E oi \in Relevant(force # "ALPACA", IbkrOutcomes, "refused"),
          oa \in Relevant(force # "IBKR", AlpacaOutcomes, "exception") :
         LET r == InitializeBrokers(force, Disconnected, oi, oa) IN
         /\ force_broker' = force
         /\ SetFields(r.f)
         /\ sel_pc' = IF r.out.kind = "raise" THEN "dead" ELSE "live"
         /\ extended_hours' = eh
         /\ overnight_trading' = ot
         /\ call' = Call("__init__", arg, r.out, r.log, FALSE)
    /\ ib_orders' = <<>>
    /\ UNCHANGED <<strategy_state, trader_vars, ib_sys>>

\* BrokerSelector.reconnect
Reconnect ==
    /\ sel_pc = "live"
    /\ \E oi \in Relevant(force_broker # "ALPACA", IbkrOutcomes, "refused"),
          oa \in Relevant(force_broker # "IBKR", AlpacaOutcomes, "exception") :
         LET r == InitializeBrokers(force_broker, Disconnected, oi, oa) IN
         /\ SetFields(r.f)
         /\ call' = Call("reconnect", None, r.out, r.log, FALSE)
    /\ ib_orders' = <<>>
    /\ UNCHANGED <<sel_pc, force_broker, extended_hours, overnight_trading,
                   strategy_state, trader_vars, ib_sys>>

\* How current_broker.disconnect() can end: IBKRTradingSystem.disconnect
\* swallows its errors, the Alpaca system's teardown may raise.
TeardownOutcomes(cb) == IF cb = "IBKRTradingSystem" THEN {"ok"} ELSE {"ok", "raised"}

\* switch_to_broker, lines 163-171: the current broker, if any, is
\* disconnected (an error of its disconnect() is swallowed) and the fields cleared.
SwitchTeardown(f, td) ==
    IF f.cb # None
    THEN [f |-> Disconnected, log |-> <<Event("teardown", f.bt, td = "ok")>>]
    ELSE [f |-> f, log |-> <<>>]

\* switch_to_broker, lines 174-184: the attempt on the upper-cased target bt.
SwitchConnect(f, bt, oi, oa) ==
    IF bt = "IBKR"
    THEN LET r == TryIbkr(f, oi) IN
         [f |-> r.f, log |-> <<Event("try", "IBKR", r.ok)>>,
          out |-> IF r.ok THEN Return("True") ELSE Return("False")]
    ELSE IF bt = "ALPACA"
    THEN LET r == TryAlpaca(f, oa) IN
         [f |-> r.f, log |-> <<Event("try", "ALPACA", r.ok)>>,
          out |-> IF r.ok THEN Return("True") ELSE Return("False")]
    ELSE [f |-> f, log |-> <<>>, out |-> Return("False")]

\* A variant of switch_to_broker that attempts the target without first
\* disconnecting the current broker.
SwitchToBrokerResultNoTeardown(f, target, td, oi, oa) ==
    IF Upper(target) = f.bt
    THEN [f |-> f, log |-> <<>>, out |-> Return("True")]
    ELSE SwitchConnect(f, Upper(target), oi, oa)

\* A variant of switch_to_broker that puts the previous broker back when the
\* attempt on the target fails.
SwitchToBrokerResultRestoring(f, target, td, oi, oa) ==
    LET bt == Upper(target) IN
    IF bt = f.bt
    THEN [f |-> f, log |-> <<>>, out |-> Return("True")]
    ELSE LET t == SwitchTeardown(f, td)
             c == SwitchConnect(t.f, bt, oi, oa) IN
         [f |-> IF c.out = Return("True") THEN c.f ELSE f,
          log |-> t.log \o c.log, out |-> c.out]

\* switch_to_broker(target) from fields f: the fields after it, what it did
\* to broker connections, and the value returned.
SwitchToBrokerResult(f, target, td, oi, oa) ==
    LET bt == Upper(target) IN
    IF bt = f.bt
    THEN [f |-> f, log |-> <<>>, out |-> Return("True")]
    ELSE LET t == SwitchTeardown(f, td)
             c == SwitchConnect(t.f, bt, oi, oa) IN
         [f |-> c.f, log |-> t.log \o c.log, out |-> c.out]

\* BrokerSelector.switch_to_broker
SwitchToBroker ==
    /\ sel_pc = "live"
    /\ \E target \in BrokerNames, td \in TeardownOutcomes(current_broker) :
       \E oi \in Relevant(Upper(target) = "IBKR", IbkrOutcomes, "refused"),
          oa \in Relevant(Upper(target) = "ALPACA", AlpacaOutcomes, "exception") :
         LET r == SwitchToBrokerResult(Fields, target, td, oi, oa) IN
         /\ SetFields(r.f)
         /\ call' = Call("switch_to_broker", target, r.out, r.log, FALSE)
    /\ ib_orders' = <<>>
    /\ UNCHANGED <<sel_pc, force_broker, extended_hours, overnight_trading,
                   strategy_state, trader_vars, ib_sys>>

\* A variant of disconnect() that forgets to clear broker_type.
DisconnectResultKeepsType(f, td) ==
    IF f.cb = None
    THEN [f |-> f, log |-> <<>>, out |-> Return(None)]
    ELSE IF td = "raised"
    THEN [f |-> f, log |-> <<Event("teardown", f.bt, FALSE)>>,
          out |-> Raise("Exception", "broker teardown error")]
    ELSE [f |-> [Disconnected EXCEPT !.bt = f.bt],
          log |-> <<Event("teardown", f.bt, TRUE)>>, out |-> Return(None)]

\* disconnect() from fields f: the broker's teardown error is not caught here.
DisconnectResult(f, td) ==
    IF f.cb = None
    THEN [f |-> f, log |-> <<>>, out |-> Return(None)]
    ELSE IF td = "raised"
    THEN [f |-> f, log |-> <<Event("teardown", f.bt, FALSE)>>,
          out |-> Raise("Exception", "broker teardown error")]
    ELSE [f |-> Disconnected, log |-> <<Event("teardown", f.bt, TRUE)>>,
          out |-> Return(None)]

\* BrokerSelector.disconnect
Disconnect ==
    /\ sel_pc = "live"
    /\ \E td \in TeardownOutcomes(current_broker) :
         LET r == DisconnectResult(Fields, td) IN
         /\ SetFields(r.f)
         /\ call' = Call("disconnect", None, r.out, r.log, FALSE)
    /\ ib_orders' = <<>>
    /\ UNCHANGED <<sel_pc, force_broker, extended_hours, overnight_trading,
                   strategy_state, trader_vars, ib_sys>>

\* ---------------------------------------------------- delegated operations
\* What the broker's own method can do once it is reached.
BrokerOutcomes == {"result", "raise"}

BrokerOut(bo) == IF bo = "result" THEN Return("broker result") ELSE Raise("Exception", "broker error")

\* The guard every delegating method opens with ("if not self.current_broker:
\* raise ConnectionError"), then the delegation itself.
GuardedDelegate(op) ==
    /\ sel_pc = "live"
    /\ \E bo \in BrokerOutcomes :
         call' = IF current_broker = None
                 THEN Call(op, None, NoBrokerConnected, <<>>, FALSE)
                 ELSE Call(op, None, BrokerOut(bo), <<>>, TRUE)
    /\ ib_orders' = <<>>
    /\ UNCHANGED <<sel_pc, force_broker, current_broker, broker_type, trading_client,
                   data_client, extended_hours, overnight_trading,
                   strategy_state, trader_vars, ib_sys>>

GetAccountInfo == GuardedDelegate("get_account_info")

GetAllPositions == GuardedDelegate("get_all_positions")

\* get_positions is an alias that calls get_all_positions.
GetPositions == GuardedDelegate("get_positions")

GetHistoricalData == GuardedDelegate("get_historical_data")

GetClock == GuardedDelegate("get_clock")

IsPaperTrading == GuardedDelegate("is_paper_trading")

\* get_strategy_state: the IBKR system reads the state file back.
GetStrategyState ==
    /\ sel_pc = "live"
    /\ \E bo \in BrokerOutcomes :
         call' = IF current_broker = None
                 THEN Call("get_strategy_state", None, NoBrokerConnected, <<>>, FALSE)
                 ELSE IF current_broker = "IBKRTradingSystem"
                 THEN Call("get_strategy_state", None,
                           IF bo = "result" THEN Return(strategy_state) ELSE Return(None),
                           <<>>, TRUE)
                 ELSE Call("get_strategy_state", None, BrokerOut(bo), <<>>, TRUE)
    /\ ib_orders' = <<>>
    /\ UNCHANGED <<sel_pc, force_broker, current_broker, broker_type, trading_client,
                   data_client, extended_hours, overnight_trading,
                   strategy_state, trader_vars, ib_sys>>

StrategyActions == {"BUY", "SHORT", "COVER_AND_BUY", "SELL_AND_SHORT"}

\* save_strategy_state: the IBKR system writes the state file (the write may raise).
SaveStrategyState ==
    /\ sel_pc = "live"
    /\ \E bo \in BrokerOutcomes, a \in {"BUY", "SHORT"} :
         LET data == [last_action |-> a, shares |-> MaxShares] IN
         IF current_broker = None
         THEN /\ call' = Call("save_strategy_state", data, NoBrokerConnected, <<>>,
                              FALSE)
              /\ UNCHANGED strategy_state
         ELSE IF current_broker = "IBKRTradingSystem" /\ bo = "result"
         THEN /\ call' = Call("save_strategy_state", data, Return(None), <<>>, TRUE)
              /\ strategy_state' = data
         ELSE /\ call' = Call("save_strategy_state", data, BrokerOut(bo), <<>>, TRUE)
              /\ UNCHANGED strategy_state
    /\ ib_orders' = <<>>
    /\ UNCHANGED <<sel_pc, force_broker, current_broker, broker_type, trading_client,
                   data_client, extended_hours, overnight_trading,
                   trader_vars, ib_sys>>

\* What the Yahoo Finance block of get_realtime_data can meet: a bar, an empty
\* history, an error after pandas was imported, or a failing yfinance import
\* (which leaves the local name pd unbound).
YahooOutcomes == {"data", "no_history", "error", "import_error"}

\* get_realtime_data from fields f: its outcome and whether the broker was reached.
GetRealtimeDataResult(f, yahoo, bo) ==
    IF yahoo = "data"
    THEN [out |-> Return("yahoo bar"), delegated |-> FALSE]
    ELSE LET reached == f.cb # None IN
         IF reached /\ bo = "result"
         THEN [out |-> Return("broker bar"), delegated |-> TRUE]
         ELSE IF yahoo = "import_error"
         THEN [out |-> Raise("UnboundLocalError", "pd"), delegated |-> reached]
         ELSE [out |-> Return("empty frame"), delegated |-> reached]

\* BrokerSelector.get_realtime_data
GetRealtimeData ==
    /\ sel_pc = "live"
    /\ \E yahoo \in YahooOutcomes, bo \in BrokerOutcomes :
         LET r == GetRealtimeDataResult(Fields, yahoo, bo) IN
         call' = Call("get_realtime_data", yahoo, r.out, <<>>, r.delegated)
    /\ ib_orders' = <<>>
    /\ UNCHANGED <<sel_pc, force_broker, current_broker, broker_type, trading_client,
                   data_client, extended_hours, overnight_trading,
                   strategy_state, trader_vars, ib_sys>>

\* ------------------------------------------------------- the IBKR order path
\* IBKRTradingSystem.place_market_order: the order handed to ib.placeOrder
\* (<<>> when placeOrder raised) and the value returned.  eh is the
\* extended_hours argument: "None", "True" or "False".
PlaceOutcomes == {"placed", "error"}

IbkrPlaceMarketOrder(side, qty, eh, dt, po) ==
    LET order == [type |-> "MARKET", action |-> side, qty |-> qty, limit_price |-> None,
                  outsideRth |-> IF eh # None THEN eh = "True" ELSE extended_hours,
                  session |-> SessionOf(dt)] IN
    IF po = "placed"
    THEN [orders |-> <<order>>, out |-> Return("order id")]
    ELSE [orders |-> <<>>, out |-> Return(None)]

\* BrokerSelector.place_market_order
PlaceMarketOrder ==
    /\ sel_pc = "live"
    /\ \E side \in {"BUY", "SELL"}, qty \in 1..MaxShares,
          ibkr \in {current_broker = "IBKRTradingSystem"} :
       \E eh \in Relevant(ibkr, {None, "True", "False"}, None),
          dt \in Relevant(ibkr, CallInstants, At(0, 570)),
          po \in Relevant(ibkr, PlaceOutcomes, "placed"),
          bo \in Relevant(current_broker = "AlpacaTradingSystem", BrokerOutcomes, "result") :
         IF current_broker = None
         THEN /\ call' = Call("place_market_order", side, NoBrokerConnected, <<>>,
                              FALSE)
              /\ ib_orders' = <<>>
         ELSE IF current_broker = "IBKRTradingSystem"
         THEN LET r == IbkrPlaceMarketOrder(side, qty, eh, dt, po) IN
              /\ call' = Call("place_market_order", side, r.out, <<>>, TRUE)
              /\ ib_orders' = r.orders
         ELSE /\ call' = Call("place_market_order", side, BrokerOut(bo), <<>>, TRUE)
              /\ ib_orders' = <<>>
    /\ UNCHANGED <<sel_pc, force_broker, current_broker, broker_type, trading_client,
                   data_client, extended_hours, overnight_trading,
                   strategy_state, trader_vars, ib_sys>>

\* IBKRTradingClient.submit_order: both branches place a market order.
SubmitOrderResult(req, dt, po) ==
    IF req.limit_price # None
    THEN IbkrPlaceMarketOrder(req.side, req.qty, None, dt, po)
    ELSE IbkrPlaceMarketOrder(req.side, req.qty, None, dt, po)

\* selector.trading_client.submit_order(order_request) on the IBKR client
SubmitOrder ==
    /\ sel_pc = "live"
    /\ trading_client = "IBKRTradingClient"
    /\ \E side \in {"BUY", "SELL"}, qty \in 1..MaxShares,
          lp \in {None, "limit"}, dt \in CallInstants, po \in PlaceOutcomes :
         LET req == [side |-> side, qty |-> qty,
                     limit_price |-> IF lp = None THEN None ELSE "limit"]
             r == SubmitOrderResult(req, dt, po) IN
         /\ call' = Call("submit_order", req.limit_price, r.out, <<>>, TRUE)
         /\ ib_orders' = r.orders
    /\ UNCHANGED <<sel_pc, force_broker, current_broker, broker_type, trading_client,
                   data_client, extended_hours, overnight_trading,
                   strategy_state, trader_vars, ib_sys>>

\* What a strategy's latest signal may carry as its action.
SignalActions == {"", "HOLD", "SELL"} \cup StrategyActions

\* A variant of the module's names in which datetime is imported at module level.
ModuleGlobalsWithDatetime ==
    {"os", "logging", "Optional", "Any", "load_dotenv", "logger", "datetime"}

\* The names broker_selector.py binds at module level; the imports of time,
\* datetime and pandas are local to other methods.
ModuleGlobals == {"os", "logging", "Optional", "Any", "load_dotenv", "logger"}

\* The record _execute_ibkr_signal hands to save_strategy_state.
SignalState(action, shares) ==
    [last_action |-> action, shares |-> shares, last_signal_time |-> "now"]

\* _execute_ibkr_signal for a truthy action, the broker being IBKR: the orders
\* handed to ib.placeOrder, in order, whether StrategyState was written, and
\* the record written.  pos is the symbol's signed position as
\* get_all_positions reports it.  time.sleep(2) after the first order of a
\* two-step action and datetime.now() in the state to save each raise NameError
\* when the module does not bind the name, which the except clause logs.
ExecuteIbkrSignal(action, shares, pos, alpaca_enums, dt, po) ==
    LET buy(n) == IbkrPlaceMarketOrder("BUY", n, None, dt, po).orders
        sell(n) == IbkrPlaceMarketOrder("SELL", n, None, dt, po).orders
        sleeps == "time" \in ModuleGlobals
        saves == "datetime" \in ModuleGlobals
        done(orders, reached) ==
            [orders |-> orders, saved |-> reached /\ saves,
             state |-> SignalState(action, shares)] IN
    IF ~alpaca_enums THEN done(<<>>, FALSE)
    ELSE IF action = "BUY" THEN done(buy(shares), TRUE)
    ELSE IF action = "SHORT" THEN done(sell(shares), TRUE)
    ELSE IF action = "COVER_AND_BUY"
    THEN IF pos < 0
         THEN IF sleeps THEN done(buy(-pos) \o buy(shares), TRUE)
              ELSE done(buy(-pos), FALSE)
         ELSE done(buy(shares), TRUE)
    ELSE IF action = "SELL_AND_SHORT"
    THEN IF pos > 0
         THEN IF sleeps THEN done(sell(pos) \o sell(shares), TRUE)
              ELSE done(sell(pos), FALSE)
         ELSE done(sell(shares), TRUE)
    ELSE done(<<>>, TRUE)

\* One pass of the while loop of _run_ibkr_continuous_strategy over one symbol.
LoopIteration(dt, yahoo, bo, action, shares, pos, alpaca_enums, po) ==
    LET idle(out) == [orders |-> <<>>, saved |-> FALSE,
                      state |-> SignalState(action, shares), out |-> Return(out)] IN
    IF ~ClockIsOpen(dt) /\ ~extended_hours
    THEN idle("market closed")
    ELSE LET data == GetRealtimeDataResult(Fields, yahoo, bo) IN
         IF data.out.kind = "raise"
         THEN idle("error processing symbol")
         ELSE IF data.out.value = "empty frame"
         THEN idle("no real-time data")
         ELSE IF action = ""
         THEN idle("no action")
         ELSE LET r == ExecuteIbkrSignal(action, shares, pos, alpaca_enums, dt, po) IN
              [orders |-> r.orders, saved |-> r.saved, state |-> r.state,
               out |-> Return("executed")]

\* One pass of the continuous loop on the IBKR broker (run_continuous_strategy
\* hands the Alpaca case to the Alpaca system), in an environment that draws
\* the instant from dts, Yahoo's answer from yahoos, the broker's from bos, the
\* reported position from poss and the fate of an order from pos_out.  The
\* call's log holds the write of StrategyState when the pass made one; its
\* argument is the signal's action, with the instant get_clock read when
\* clocked.
LoopPass(dts, yahoos, bos, poss, pos_out, clocked) ==
    /\ sel_pc = "live"
    /\ broker_type = "IBKR"
    /\ \E dt \in dts :
       \E yahoo \in Relevant(ClockIsOpen(dt) \/ extended_hours, yahoos, "data") :
       \E bo \in Relevant(yahoo # "data", bos, "result") :
       \E action \in Relevant((ClockIsOpen(dt) \/ extended_hours)
                                 /\ (yahoo = "data" \/ bo = "result"), SignalActions, "") :
       \E alpaca_enums \in Relevant(action \in StrategyActions, BOOLEAN, TRUE) :
       \E shares \in Relevant(action \in StrategyActions /\ alpaca_enums, 1..MaxShares, 1),
          pos \in Relevant(action \in {"COVER_AND_BUY", "SELL_AND_SHORT"} /\ alpaca_enums,
                           poss, 0),
          po \in Relevant(action \in StrategyActions /\ alpaca_enums, pos_out, "placed") :
         LET r == LoopIteration(dt, yahoo, bo, action, shares, pos, alpaca_enums, po) IN
         /\ call' = Call("loop_tick",
                         IF clocked THEN [action |-> action, dt |-> dt] ELSE action, r.out,
                         IF r.saved THEN <<Event("save", "IBKR", TRUE)>> ELSE <<>>, TRUE)
         /\ ib_orders' = r.orders
         /\ strategy_state' = IF r.saved THEN r.state ELSE strategy_state
    /\ UNCHANGED <<sel_pc, force_broker, current_broker, broker_type, trading_client,
                   data_client, extended_hours, overnight_trading,
                   trader_vars, ib_sys>>

\* A pass of the loop in any environment.
LoopTick ==
    LoopPass(CallInstants, YahooOutcomes, BrokerOutcomes, -MaxQty..MaxQty, PlaceOutcomes, FALSE)

\* A pass of the loop once the broker's data feed is gone: its get_realtime_data
\* raises whenever Yahoo has nothing.
LoopTickFeedDown ==
    LoopPass({At(0, 570), At(0, 1200), At(5, 570)}, {"data", "no_history"}, {"raise"},
             {-1, 0, 1}, PlaceOutcomes, FALSE)

\* A pass of the loop while Yahoo answers.
LoopTickYahooUp ==
    LoopPass({At(0, 570), At(0, 1200), At(5, 570)}, {"data"}, BrokerOutcomes,
             {-1, 0, 1}, PlaceOutcomes, FALSE)

\* A pass of the loop, any instant of the week on the clock, while Yahoo answers.
LoopTickClocked == LoopPass(CallInstants, {"data"}, {"result"}, {-1, 0, 1}, PlaceOutcomes, TRUE)

\* _execute_ibkr_signal, lines 687-708: the number of orders the action calls
\* for, the symbol's signed position being pos.
PlannedOrders(action, pos) ==
    IF action = "COVER_AND_BUY" THEN (IF pos < 0 THEN 2 ELSE 1)
    ELSE IF action = "SELL_AND_SHORT" THEN (IF pos > 0 THEN 2 ELSE 1)
    ELSE IF action \in StrategyActions THEN 1
    ELSE 0

\* SIGINT while the loop runs: signal_handler (lines 570-573) disconnects the
\* selector and calls sys.exit(0).  The handler runs between two bytecodes of
\* the main thread, so the pass in flight is cut after k of its orders (k = 0
\* covers the sleep between passes).  SystemExit is not an Exception, so no
\* except clause of the loop catches it.
Interrupt ==
    /\ sel_pc = "live"
    /\ broker_type = "IBKR"
    /\ \E action \in SignalActions, shares \in 1..MaxShares, pos \in {-1, 0, 1},
          po \in PlaceOutcomes :
         LET r == LoopIteration(At(0, 570), "data", "result", action, shares, pos, TRUE, po)
             dr == DisconnectResult(Fields, "ok") IN
         \E k \in 0..Len(r.orders) :
           /\ SetFields(dr.f)
           /\ call' = Call("SIGINT", [action |-> action, planned |-> PlannedOrders(action, pos)],
                           Raise("SystemExit", "0"), dr.log, FALSE)
           /\ ib_orders' = SubSeq(r.orders, 1, k)
    /\ sel_pc' = "exited"
    /\ UNCHANGED <<force_broker, extended_hours, overnight_trading,
                   strategy_state, trader_vars, ib_sys>>

\* ------------------------------------------------------ RealTimeMACDTrader
\* Prices are in cents (small, so that the products below stay within 32-bit
\* integers).  An optional price is <<>> (None) or <<p>>.
\* A variant of round(x, 2) that truncates.
RoundDown(n, d, tie) == n \div d

\* round(x, 2) of the double nearest to n/d cents: the nearest cent, and where
\* n/d lies exactly halfway between two cents the double lies on either side
\* of the half, so the result is the lower cent (tie = 0) or the upper (tie = 1).
Round2(n, d, tie) ==
    LET q == n \div d
        r == n % d IN
    IF 2 * r < d THEN q
    ELSE IF 2 * r > d THEN q + 1
    ELSE q + tie

\* min(max(lo, n/d), hi) as a fraction [n, d]; lo and hi are whole numbers.
Clamp(n, d, lo, hi) ==
    IF n < lo * d THEN [n |-> lo, d |-> 1]
    ELSE IF n > hi * d THEN [n |-> hi, d |-> 1]
    ELSE [n |-> n, d |-> d]

\* A variant of the buffer that clamps the whole spread in every session.
BufferPerMilleNotHalved(bid, ask, overnight) ==
    LET num == IF bid > 0 THEN (ask - bid) * 1000 ELSE 0
        den == IF bid > 0 THEN bid ELSE 1 IN
    IF overnight THEN Clamp(num, den, 10, 30) ELSE Clamp(num, den, 5, 15)

\* buffer_percentage in tenths of a percent: clamp(spread_pct, 1.0, 3.0)
\* overnight, clamp(spread_pct / 2, 0.5, 1.5) in the other sessions.
BufferPerMille(bid, ask, overnight) ==
    LET num == IF bid > 0 THEN (ask - bid) * 1000 ELSE 0
        den == IF bid > 0 THEN bid ELSE 1 IN
    IF overnight THEN Clamp(num, den, 10, 30) ELSE Clamp(num, 2 * den, 5, 15)

\* The limit price place_order derives from the quote monitor's latest quote.
MonitorLimitPrice(side, bid, ask, overnight, tie) ==
    LET b == BufferPerMille(bid, ask, overnight) IN
    IF side = "BUY"
    THEN Round2(ask * (1000 * b.d + b.n), 1000 * b.d, tie)
    ELSE Round2(bid * (1000 * b.d - b.n), 1000 * b.d, tie)

\* The limit price from the data client's latest quote: 1% beyond ask / bid.
ApiLimitPrice(side, bid, ask, tie) ==
    IF side = "BUY" THEN Round2(ask * 101, 100, tie) ELSE Round2(bid * 99, 100, tie)

\* The buffer of the data-client branch, in tenths of a percent: 1%.
ApiBufferPerMille == [n |-> 10, d |-> 1]

\* place_order, lines 176-224: the buffer applied and the limit price computed
\* from a quote of the monitor or of the data client.
ComputeLimitPrice(side, bid, ask, overnight, source, tie) ==
    IF source = "monitor"
    THEN [buffer |-> BufferPerMille(bid, ask, overnight),
          price |-> MonitorLimitPrice(side, bid, ask, overnight, tie)]
    ELSE [buffer |-> ApiBufferPerMille, price |-> ApiLimitPrice(side, bid, ask, tie)]

NoOrder == [type |-> "NONE"]

\* What one call of place_order did: given is the caller's limit_price, quote
\* the kind of quote the call looked up ("not consulted" when it looked up none).
PlaceResult(side, qty, dt, given, quote, order, submitted, why) ==
    [side |-> side, qty |-> qty, session |-> SessionOf(dt), given |-> given,
     quote |-> quote, order |-> order, submitted |-> submitted, why |-> why]

NotPlaced == [side |-> None, qty |-> 0, session |-> None, given |-> <<>>,
              quote |-> "not consulted", order |-> NoOrder,
              submitted |-> FALSE, why |-> "not called"]

\* A variant of the quote lookup that falls back on a price of its own when
\* there is no quote.
QuotedPriceGuessed(side, quote, overnight) ==
    IF quote.kind \in {"monitor", "api"}
    THEN <<ComputeLimitPrice(side, quote.bid, quote.ask, overnight, quote.kind, quote.tie).price>>
    ELSE <<100>>

\* place_order, lines 177-230: the limit price from the monitor's latest quote,
\* else from the data client's; None when the data client has no quote for the
\* symbol or the lookup raised.
QuotedPrice(side, quote, overnight) ==
    IF quote.kind \in {"monitor", "api"}
    THEN <<ComputeLimitPrice(side, quote.bid, quote.ask, overnight, quote.kind, quote.tie).price>>
    ELSE <<>>

\* A variant of the session gate in which extended_hours opens the overnight
\* session as well.
CanTradeExtendedCoversOvernight(cfg, dt) ==
    \/ is_market_hours(dt)
    \/ cfg.extended_hours /\ (is_pre_market(dt) \/ is_after_hours(dt) \/ is_overnight(dt))

\* place_order, lines 152-154: can_trade_by_settings.
CanTradeBySettings(cfg, dt) ==
    \/ is_market_hours(dt)
    \/ cfg.extended_hours /\ (is_pre_market(dt) \/ is_after_hours(dt))
    \/ cfg.overnight_trading /\ is_overnight(dt)

\* A variant of the test of lines 162 and 174 that looks at extended_hours alone.
LimitBranchExtendedOnly(cfg, dt) == cfg.extended_hours

\* place_order, lines 162 and 174: "if use_extended_hours or is_overnight".
LimitBranch(cfg, dt) == cfg.extended_hours \/ is_overnight(dt)

\* place_order(side, qty, limit_price) under configuration cfg in market mk:
\* mk.dt is datetime.now(), mk.elig what check_extended_hours_eligibility
\* finds, mk.quote the quote at hand, mk.so what submit_order does.
PlaceOrderResult(cfg, side, qty, limit_price, mk) ==
    LET dt == mk.dt
        use_extended_hours == cfg.extended_hours
        can_trade_by_settings == CanTradeBySettings(cfg, dt)
        limit_branch == LimitBranch(cfg, dt)
        lookup == limit_branch /\ limit_price = <<>>
        price ==
            IF limit_price # <<>> THEN limit_price
            ELSE QuotedPrice(side, mk.quote, is_overnight(dt))
        order ==
            IF limit_branch
            THEN [type |-> "LIMIT", limit_price |-> price, time_in_force |-> "DAY",
                  extended_hours |-> TRUE]
            ELSE [type |-> "MARKET", time_in_force |-> "DAY"] IN
    IF ~can_trade_by_settings
    THEN PlaceResult(side, qty, dt, limit_price, "not consulted", NoOrder, FALSE,
                     "outside allowed hours")
    ELSE IF limit_branch /\ mk.elig = "account_ineligible"
    THEN PlaceResult(side, qty, dt, limit_price, "not consulted", NoOrder, FALSE,
                     "account not eligible")
    ELSE LET quote == IF lookup THEN mk.quote.kind ELSE "not consulted" IN
         IF limit_branch /\ price = <<>>
         THEN PlaceResult(side, qty, dt, limit_price, quote, NoOrder, FALSE, "no quote")
         ELSE IF mk.so = "accepted"
         THEN PlaceResult(side, qty, dt, limit_price, quote, order, TRUE, "submitted")
         ELSE PlaceResult(side, qty, dt, limit_price, quote, order, FALSE,
                          "submit_order raised")

EligOutcomes == {"eligible", "symbol_ineligible", "account_ineligible"}
SubmitOutcomes == {"accepted", "rejected"}
\* A quote in cents; tie is the side on which round(x, 2) falls when the
\* limit price computed from the quote is exactly halfway between two cents.
Quote(kind, bid, ask, tie) == [kind |-> kind, bid |-> bid, ask |-> ask, tie |-> tie]
\* The monitor's latest quote, the data client's quote when the monitor has
\* none, no quote for the symbol, or an error while fetching it.
Quotes == {Quote("monitor", 99, 100, 0), Quote("monitor", 95, 100, 0),
           Quote("monitor", 95, 100, 1), Quote("monitor", 0, 100, 0), Quote("api", 99, 100, 0),
           Quote("none", 0, 0, 0), Quote("error", 0, 0, 0)}
Market(dt, elig, quote, so) == [dt |-> dt, elig |-> elig, quote |-> quote, so |-> so]

\* get_current_position: (qty, side) of the symbol's position; (0, "NONE")
\* when there is none or when the query raised.
Reported(qty, ok) ==
    IF ~ok THEN [qty |-> 0, side |-> "NONE", ok |-> FALSE]
    ELSE [qty |-> qty, ok |-> TRUE,
          side |-> IF qty > 0 THEN "LONG" ELSE IF qty < 0 THEN "SHORT" ELSE "NONE"]

Abs(n) == IF n < 0 THEN -n ELSE n

Hold == [action |-> None, qty |-> 0]

\* A variant of the no-position branch that never opens a short.
DecideNoneLongOnly(macd_position, shares_per_trade) ==
    IF macd_position = "ABOVE" THEN [action |-> "BUY", qty |-> shares_per_trade]
    ELSE Hold

\* process_macd_signal, lines 407-419: no position yet.
DecideNone(macd_position, shares_per_trade) ==
    IF macd_position = "ABOVE" THEN [action |-> "BUY", qty |-> shares_per_trade]
    ELSE IF macd_position = "BELOW" THEN [action |-> "SELL", qty |-> shares_per_trade]
    ELSE Hold

\* A variant of the long branch that only flattens the position.
DecideLongFlattenOnly(current_qty, macd_position, crossunder, last_action, shares_per_trade) ==
    IF crossunder \/ (macd_position = "BELOW" /\ ~(last_action = "SELL"))
    THEN [action |-> "SELL", qty |-> current_qty]
    ELSE Hold

\* process_macd_signal, lines 422-432: currently long.
DecideLong(current_qty, macd_position, crossunder, last_action, shares_per_trade) ==
    IF crossunder
    THEN [action |-> "SELL", qty |-> current_qty + shares_per_trade]
    ELSE IF macd_position = "BELOW" /\ ~(last_action = "SELL")
    THEN [action |-> "SELL", qty |-> current_qty + shares_per_trade]
    ELSE Hold

\* A variant of the short branch that adds the signed quantity.
DecideShortSigned(current_qty, macd_position, crossover, last_action, shares_per_trade) ==
    IF crossover \/ (macd_position = "ABOVE" /\ ~(last_action = "BUY"))
    THEN [action |-> "BUY", qty |-> current_qty + shares_per_trade]
    ELSE Hold

\* process_macd_signal, lines 435-445: currently short.
DecideShort(current_qty, macd_position, crossover, last_action, shares_per_trade) ==
    IF crossover
    THEN [action |-> "BUY", qty |-> Abs(current_qty) + shares_per_trade]
    ELSE IF macd_position = "ABOVE" /\ ~(last_action = "BUY")
    THEN [action |-> "BUY", qty |-> Abs(current_qty) + shares_per_trade]
    ELSE Hold

\* The decision block of process_macd_signal (lines 402-445): the action
\* (None = hold) and the quantity.
Decide(current_side, current_qty, macd_position, crossover, crossunder, last_action, shares_per_trade) ==
    IF current_side = "NONE"
    THEN DecideNone(macd_position, shares_per_trade)
    ELSE IF current_side = "LONG"
    THEN DecideLong(current_qty, macd_position, crossunder, last_action, shares_per_trade)
    ELSE IF current_side = "SHORT"
    THEN DecideShort(current_qty, macd_position, crossover, last_action, shares_per_trade)
    ELSE Hold

\* A MACD signal as get_macd_signal returns it; macd_position is None while
\* the indicator warms up.
Signal(p, co, cu) == [macd_position |-> p, crossover |-> co, crossunder |-> cu]
ReadySignals == {Signal(p, co, cu) : p \in {"ABOVE", "BELOW"}, co \in BOOLEAN, cu \in BOOLEAN}
Signals == ReadySignals \cup {Signal(None, FALSE, FALSE)}

NewTraderState ==
    [position_type |-> "NONE", position_shares |-> 0, last_action |-> None,
     last_signal_time |-> None]

DefaultCfg == [shares_per_trade |-> 1, extended_hours |-> TRUE, overnight_trading |-> TRUE]

\* What one pass of run() saw and did: quoted tells whether the monitor had a
\* quote, assigned is the trading state the pass assigned (<<>> when it
\* assigned none).
NoTick == [seen |-> FALSE, quoted |-> FALSE, sig |-> Signal(None, FALSE, FALSE),
           rep |-> Reported(0, FALSE), queried |-> FALSE, last_action |-> None,
           action |-> None, qty |-> 0, called |-> FALSE, side |-> None,
           ordered |-> FALSE, ret |-> FALSE, assigned |-> <<>>]

\* A variant of the state update that does not look at the order.
StateAssignedAnyAttempt(action, qty, order) ==
    <<[position_type |-> IF action = "BUY" THEN "LONG" ELSE "SHORT",
       position_shares |-> IF action = "BUY" THEN qty ELSE -qty,
       last_action |-> action, last_signal_time |-> "now"]>>

\* process_macd_signal, lines 457-462: the trading state assigned after
\* place_order returned, <<>> when nothing is assigned; order tells whether
\* place_order returned an order.
StateAssigned(action, qty, order) ==
    IF order
    THEN <<[position_type |-> IF action = "BUY" THEN "LONG" ELSE "SHORT",
            position_shares |-> IF action = "BUY" THEN qty ELSE -qty,
            last_action |-> action, last_signal_time |-> "now"]>>
    ELSE <<>>

\* process_macd_signal past the warm-up test, lines 392-474.
ProcessReadySignal(cfg, st, sig, rep, mk) ==
    LET d == Decide(rep.side, rep.qty, sig.macd_position, sig.crossover,
                    sig.crossunder, st.last_action, cfg.shares_per_trade)
        execute == d.action # None /\ d.qty > 0
        side == IF d.action = "BUY" THEN "BUY" ELSE "SELL"
        po == PlaceOrderResult(cfg, side, d.qty, <<>>, mk)
        ordered == execute /\ po.submitted
        assigned == IF execute THEN StateAssigned(d.action, d.qty, po.submitted) ELSE <<>> IN
    [st |-> IF assigned = <<>> THEN st ELSE assigned[1],
     obs |-> [seen |-> TRUE, quoted |-> TRUE, sig |-> sig, rep |-> rep,
              queried |-> TRUE, last_action |-> st.last_action, action |-> d.action,
              qty |-> d.qty, called |-> execute,
              side |-> IF execute THEN side ELSE None,
              ordered |-> ordered, ret |-> assigned # <<>>, assigned |-> assigned]]

\* A variant of process_macd_signal without the warm-up test.
ProcessMacdSignalNoWarmUp(cfg, st, sig, rep, mk) == ProcessReadySignal(cfg, st, sig, rep, mk)

\* process_macd_signal: what it saw, decided and did, and the trading state after.
\* rep is what get_current_position returns, mk the market place_order meets.
ProcessMacdSignal(cfg, st, sig, rep, mk) ==
    IF sig.macd_position = None
    THEN [st |-> st,
          obs |-> [seen |-> TRUE, quoted |-> TRUE, sig |-> sig, rep |-> Reported(0, FALSE),
                   queried |-> FALSE, last_action |-> st.last_action, action |-> None,
                   qty |-> 0, called |-> FALSE, side |-> None,
                   ordered |-> FALSE, ret |-> FALSE, assigned |-> <<>>]]
    ELSE ProcessReadySignal(cfg, st, sig, rep, mk)

\* The markets a tick of the polling loop is taken to meet.
TickMarkets ==
    {Market(At(0, 570), "eligible", Quote("monitor", 99, 100, 0), "accepted"),
     Market(At(0, 570), "eligible", Quote("monitor", 99, 100, 0), "rejected"),
     Market(At(0, 240), "eligible", Quote("monitor", 99, 100, 0), "accepted"),
     Market(At(0, 1200), "eligible", Quote("monitor", 99, 100, 0), "accepted"),
     Market(At(0, 960), "eligible", Quote("none", 0, 0, 0), "accepted"),
     Market(At(5, 570), "eligible", Quote("monitor", 99, 100, 0), "accepted")}

Min(a, b) == IF a < b THEN a ELSE b

\* A variant of the pass of run() that, without a quote, processes the signal
\* the monitor computed from its earlier quotes.
RunPassStaleSignal(cfg, st, quoted, sig, rep, mk) ==
    LET r == ProcessMacdSignal(cfg, st, IF quoted THEN sig ELSE Signal("ABOVE", FALSE, FALSE),
                               IF quoted THEN rep ELSE Reported(0, TRUE), mk) IN
    [st |-> r.st, obs |-> [r.obs EXCEPT !.quoted = quoted]]

\* run(), lines 484-494: one pass of the loop.  quoted is whether
\* get_latest_quote returned a quote; without one the pass only sleeps.
RunPass(cfg, st, quoted, sig, rep, mk) ==
    IF quoted THEN ProcessMacdSignal(cfg, st, sig, rep, mk)
    ELSE [st |-> st, obs |-> [NoTick EXCEPT !.seen = TRUE, !.last_action = st.last_action]]

\* One pass of run(): with a quote, add it to the monitor and process the
\* signal.  The count of orders in the current run of unchanged ticks stops at
\* 2; a pass without a quote ends the run.
Tick ==
    /\ \E quoted \in BOOLEAN :
       \E sig \in Relevant(quoted, Signals, Signal(None, FALSE, FALSE)) :
       \E ok \in Relevant(sig.macd_position # None, BOOLEAN, TRUE) :
       \E q \in Relevant(sig.macd_position # None /\ ok, -MaxQty..MaxQty, 0) :
       \E d \in {Decide(Reported(q, ok).side, Reported(q, ok).qty, sig.macd_position,
                        sig.crossover, sig.crossunder, t_state.last_action,
                        t_cfg.shares_per_trade)} :
       \E mk \in Relevant(sig.macd_position # None /\ d.action # None, TickMarkets,
                          Market(At(0, 570), "eligible", Quote("none", 0, 0, 0), "accepted")) :
       \E r \in {RunPass(t_cfg, t_state, quoted, sig, Reported(q, ok), mk)} :
         LET same == tick.seen /\ tick.queried /\ r.obs.queried
                     /\ tick.sig = sig /\ tick.rep = r.obs.rep
             n == IF r.obs.ordered THEN 1 ELSE 0 IN
         /\ t_state' = r.st
         /\ tick' = r.obs
         /\ run_orders' = IF same THEN Min(run_orders + n, 2) ELSE n
    /\ UNCHANGED <<t_cfg, placed, clock, priced, signal_state, sel_vars>>

\* The process is started again: __init__ sets the trading state afresh.
Restart ==
    /\ t_state # NewTraderState
    /\ t_state' = NewTraderState
    /\ UNCHANGED <<t_cfg, tick, placed, run_orders, clock, priced, signal_state, sel_vars>>

\* place_order called directly, with or without a limit price.
PlaceOrder ==
    /\ \E side \in {"BUY", "SELL"}, qty \in 1..MaxShares, lp \in {<<>>, <<105>>},
          dt \in CallInstants :
       \E limit \in {LimitBranch(t_cfg, dt)} :
       \E elig \in Relevant(limit, EligOutcomes, "eligible"),
          quote \in Relevant(limit /\ lp = <<>>, Quotes, Quote("none", 0, 0, 0)),
          so \in SubmitOutcomes :
         placed' = PlaceOrderResult(t_cfg, side, qty, lp, Market(dt, elig, quote, so))
    /\ UNCHANGED <<t_cfg, t_state, tick, run_orders, clock, priced, signal_state, sel_vars>>

\* place_order, lines 134-148: now = datetime.now() and the four session tests.
Classified(dt) ==
    [seen |-> TRUE, dt |-> dt, market |-> is_market_hours(dt), pre |-> is_pre_market(dt),
     after |-> is_after_hours(dt), overnight |-> is_overnight(dt), session |-> SessionOf(dt)]

NoClock ==
    [seen |-> FALSE, dt |-> At(0, 0), market |-> FALSE, pre |-> FALSE, after |-> FALSE,
     overnight |-> FALSE, session |-> None]

\* The session tests applied to an instant.
ClassifySession ==
    /\ \E dt \in Instants : clock' = Classified(dt)
    /\ UNCHANGED <<t_cfg, t_state, tick, placed, run_orders, priced, signal_state, sel_vars>>

\* A quote to price from: the inputs of the limit-price computation.
PriceInputs ==
    [seen : {FALSE}, side : {"BUY", "SELL"}, bid : 0..MaxPrice, ask : 0..MaxPrice,
     overnight : BOOLEAN, source : {"monitor", "api"}, tie : {0, 1},
     buffer : {ApiBufferPerMille}, price : {0}]

NoPrice == [seen |-> FALSE, side |-> "BUY", bid |-> 0, ask |-> 0, overnight |-> FALSE,
            source |-> "api", tie |-> 0, buffer |-> ApiBufferPerMille, price |-> 0]

\* The limit-price computation of place_order applied to the quote at hand.
PriceLimitOrder ==
    /\ ~priced.seen
    /\ LET r == ComputeLimitPrice(priced.side, priced.bid, priced.ask, priced.overnight,
                                  priced.source, priced.tie) IN
       priced' = [priced EXCEPT !.seen = TRUE, !.buffer = r.buffer, !.price = r.price]
    /\ UNCHANGED <<t_cfg, t_state, tick, placed, run_orders, clock, signal_state, sel_vars>>

\* ---------------------------------------------------------- QuoteMonitor
\* A variant of classify that reports a transition out of UNKNOWN on the first
\* sample as well.
ClassifyFirstSampleCrosses(macd, signal, previous_position, first) ==
    LET position == IF macd > signal THEN "ABOVE"
                    ELSE IF macd < signal THEN "BELOW" ELSE previous_position IN
    [macd_position |-> position,
     crossover |-> previous_position \in {"BELOW", "UNKNOWN"} /\ position = "ABOVE",
     crossunder |-> previous_position \in {"ABOVE", "UNKNOWN"} /\ position = "BELOW"]

\* classify(macd, signal, previous_position): ABOVE when macd > signal, BELOW
\* when macd < signal, else the previous position; crossover when the position
\* turns ABOVE from BELOW or UNKNOWN, crossunder symmetrically; on the first
\* sample, seeded with UNKNOWN, neither.
Classify(macd, signal, previous_position, first) ==
    LET position == IF macd > signal THEN "ABOVE"
                    ELSE IF macd < signal THEN "BELOW" ELSE previous_position IN
    [macd_position |-> position,
     crossover |-> ~first /\ previous_position \in {"BELOW", "UNKNOWN"} /\ position = "ABOVE",
     crossunder |-> ~first /\ previous_position \in {"ABOVE", "UNKNOWN"} /\ position = "BELOW"]

\* The SignalState of a symbol before its first sample.
NoSignalState ==
    [samples |-> 0, macd |-> 0, signal |-> 0, previous_position |-> "UNKNOWN",
     macd_position |-> "UNKNOWN", crossover |-> FALSE, crossunder |-> FALSE]

\* A new price sample: the state is classified once, against the position of
\* the previous sample.
NewSample ==
    /\ \E macd \in -MaxMacd..MaxMacd, signal \in -MaxMacd..MaxMacd :
         LET c == Classify(macd, signal, signal_state.macd_position,
                           signal_state.samples = 0) IN
         signal_state' =
             [samples |-> Min(signal_state.samples + 1, MaxSamples),
              macd |-> macd, signal |-> signal,
              previous_position |-> signal_state.macd_position,
              macd_position |-> c.macd_position,
              crossover |-> c.crossover, crossunder |-> c.crossunder]
    /\ UNCHANGED <<t_cfg, t_state, tick, placed, run_orders, clock, priced, sel_vars>>

\* ------------------------------------------------------------ specification
InitTraderIdle ==
    /\ t_cfg = DefaultCfg
    /\ t_state = NewTraderState
    /\ tick = NoTick
    /\ placed = NotPlaced
    /\ run_orders = 0
    /\ clock = NoClock
    /\ priced = NoPrice
    /\ signal_state = NoSignalState

Init ==
    /\ sel_pc = "unbuilt"
    /\ force_broker = None
    /\ current_broker = None
    /\ broker_type = None
    /\ trading_client = None
    /\ data_client = None
    /\ extended_hours = FALSE
    /\ overnight_trading = FALSE
    /\ call = NoCall
    /\ ib_orders = <<>>
    /\ strategy_state = None
    /\ ib_sys = NoIbSys
    /\ InitTraderIdle

Next ==
    \/ Construct
    \/ Reconnect
    \/ SwitchToBroker
    \/ Disconnect
    \/ GetAccountInfo
    \/ GetAllPositions
    \/ GetPositions
    \/ GetHistoricalData
    \/ GetRealtimeData
    \/ PlaceMarketOrder
    \/ GetClock
    \/ SaveStrategyState
    \/ GetStrategyState
    \/ IsPaperTrading

Spec == Init /\ [][Next]_vars

\* The IBKR order path, from a selector that construction left on IBKR.
InitIbkr ==
    /\ sel_pc = "live"
    /\ force_broker \in {"AUTO", "IBKR"}
    /\ current_broker = "IBKRTradingSystem"
    /\ broker_type = "IBKR"
    /\ trading_client = "IBKRTradingClient"
    /\ data_client = "IBKRTradingSystem"
    /\ extended_hours \in BOOLEAN
    /\ overnight_trading = TRUE
    /\ call = NoCall
    /\ ib_orders = <<>>
    /\ strategy_state = None
    /\ ib_sys = NoIbSys
    /\ InitTraderIdle

NextIbkr ==
    \/ PlaceMarketOrder
    \/ SubmitOrder
    \/ LoopTick

SpecIbkr == InitIbkr /\ [][NextIbkr]_vars

\* The continuous loop of a UnifiedTradingSystem connected to IBKR, under
\* every setting of EXTENDED_HOURS and OVERNIGHT_TRADING (lines 535-536).
InitLoopGate ==
    /\ sel_pc = "live"
    /\ force_broker \in {"AUTO", "IBKR"}
    /\ current_broker = "IBKRTradingSystem"
    /\ broker_type = "IBKR"
    /\ trading_client = "IBKRTradingClient"
    /\ data_client = "IBKRTradingSystem"
    /\ extended_hours \in BOOLEAN
    /\ overnight_trading \in BOOLEAN
    /\ call = NoCall
    /\ ib_orders = <<>>
    /\ strategy_state = None
    /\ ib_sys = NoIbSys
    /\ InitTraderIdle

NextLoopGate == LoopTickClocked

SpecLoopGate == InitLoopGate /\ [][NextLoopGate]_vars

InitSelectorIdle ==
    /\ sel_pc = "unbuilt"
    /\ force_broker = None
    /\ current_broker = None
    /\ broker_type = None
    /\ trading_client = None
    /\ data_client = None
    /\ extended_hours = FALSE
    /\ overnight_trading = FALSE
    /\ call = NoCall
    /\ ib_orders = <<>>
    /\ strategy_state = None
    /\ ib_sys = NoIbSys

Configs == [shares_per_trade : 1..MaxShares, extended_hours : BOOLEAN,
            overnight_trading : BOOLEAN]

\* The polling loop of one trader, from its construction.
InitTrader ==
    /\ InitSelectorIdle
    /\ t_cfg \in {c \in Configs : c.extended_hours = c.overnight_trading}
    /\ t_state = NewTraderState
    /\ tick = NoTick
    /\ placed = NotPlaced
    /\ run_orders = 0
    /\ clock = NoClock
    /\ priced = NoPrice
    /\ signal_state = NoSignalState

NextTrader ==
    \/ Tick
    \/ Restart

SpecTrader == InitTrader /\ [][NextTrader]_vars

NextPlaceOrder == PlaceOrder

\* place_order under every configuration.
InitPlaceOrder ==
    /\ InitSelectorIdle
    /\ t_cfg \in Configs
    /\ t_state = NewTraderState
    /\ tick = NoTick
    /\ placed = NotPlaced
    /\ run_orders = 0
    /\ clock = NoClock
    /\ priced = NoPrice
    /\ signal_state = NoSignalState

SpecPlaceOrder == InitPlaceOrder /\ [][NextPlaceOrder]_vars

\* The session tests over the week.
NextSession == ClassifySession

SpecSession == InitPlaceOrder /\ [][NextSession]_vars

\* The limit-price computation over the quotes up to MaxPrice.
InitPricing ==
    /\ InitSelectorIdle
    /\ t_cfg = DefaultCfg
    /\ t_state = NewTraderState
    /\ tick = NoTick
    /\ placed = NotPlaced
    /\ run_orders = 0
    /\ clock = NoClock
    /\ priced \in PriceInputs
    /\ signal_state = NoSignalState

NextPricing == PriceLimitOrder

SpecPricing == InitPricing /\ [][NextPricing]_vars

\* The signal state of one symbol over its samples.
NextSignal == NewSample

SpecSignal == InitPlaceOrder /\ [][NextSignal]_vars

\* The two polling loops, each in its own process: the continuous strategy loop
\* of a selector on IBKR, and run() of a trader (which holds Alpaca clients of
\* its own and builds no selector).
InitLoops ==
    \/ InitIbkr
    \/ /\ InitSelectorIdle
       /\ InitTraderIdle

TraderProcess == sel_pc = "unbuilt"

NextLoops ==
    \/ LoopTick
    \/ TraderProcess /\ Tick

SpecLoops == InitLoops /\ [][NextLoops]_vars

\* The continuous loop of a selector on IBKR, scheduled for ever: each pass
\* ends in time.sleep and the while loop takes the next one.
NextLoopLive == LoopTickFeedDown

SpecLoopLive == InitIbkr /\ [][NextLoopLive]_vars /\ WF_vars(LoopTickFeedDown)

\* The continuous loop until SIGINT ends the process.
NextShutdown ==
    \/ LoopTickYahooUp
    \/ Interrupt

SpecShutdown == InitIbkr /\ [][NextShutdown]_vars

\* ------------------------------------------------------------------ claims
IsInitialisation == call.op \in {"__init__", "reconnect"}

NoBrokerFields ==
    /\ current_broker = None
    /\ broker_type = None
    /\ trading_client = None
    /\ data_client = None

\* C1: in AUTO mode (force_broker neither "IBKR" nor "ALPACA") initialisation
\* attempts IBKR first and Alpaca only after a failed IBKR attempt; it ends on
\* IBKR when IBKR connects, on Alpaca when IBKR fails and Alpaca connects, and
\* raises ConnectionError with no broker connected when both attempts fail.
C1_AutoModeIbkrThenAlpaca ==
    (IsInitialisation /\ force_broker \notin {"IBKR", "ALPACA"}) =>
        /\ Len(call.log) \in {1, 2}
        /\ call.log[1] = Event("try", "IBKR", call.log[1].ok)
        /\ IF call.log[1].ok
           THEN /\ Len(call.log) = 1
                /\ call.out = Return(None)
                /\ broker_type = "IBKR" /\ current_broker = "IBKRTradingSystem"
           ELSE /\ Len(call.log) = 2
                /\ call.log[2] = Event("try", "ALPACA", call.log[2].ok)
                /\ IF call.log[2].ok
                   THEN /\ call.out = Return(None)
                        /\ broker_type = "ALPACA"
                        /\ current_broker = "AlpacaTradingSystem"
                   ELSE /\ call.out.kind = "raise"
                        /\ call.out.exc = "ConnectionError"
                        /\ NoBrokerFields

\* AUTO-mode construction that fell back: IBKR failed, Alpaca connected.
C1_Witness ==
    /\ call.op = "__init__" /\ force_broker = "AUTO"
    /\ Len(call.log) = 2 /\ ~call.log[1].ok /\ call.log[2].ok
    /\ broker_type = "ALPACA"

\* C2: with force_broker "IBKR" (respectively "ALPACA") initialisation attempts
\* that broker and no other; when the attempt fails it raises ConnectionError,
\* no broker is connected, and a constructor that raised leaves no object.
C2_ForcedBrokerOnly ==
    (IsInitialisation /\ force_broker \in {"IBKR", "ALPACA"}) =>
        /\ Len(call.log) = 1
        /\ call.log[1] = Event("try", force_broker, call.log[1].ok)
        /\ IF call.log[1].ok
           THEN call.out = Return(None) /\ broker_type = force_broker
           ELSE /\ call.out.kind = "raise"
                /\ call.out.exc = "ConnectionError"
                /\ NoBrokerFields
                /\ call.op = "__init__" => sel_pc = "dead"

\* A constructor forced to Alpaca that raised.
C2_Witness ==
    /\ call.op = "__init__" /\ force_broker = "ALPACA"
    /\ ~call.log[1].ok /\ sel_pc = "dead" /\ current_broker = None

\* The delegated operations of the capability set.
DelegatedOperations ==
    {"get_account_info", "get_all_positions", "get_positions", "get_historical_data",
     "get_realtime_data", "place_market_order", "get_clock", "save_strategy_state",
     "get_strategy_state", "is_paper_trading"}

\* C3: while the selector is disconnected every delegated operation fails with
\* the no-broker-connected ConnectionError, which reaches the caller.
C3_DisconnectedCallsRaise ==
    (call.op \in DelegatedOperations /\ current_broker = None) =>
        call.out = NoBrokerConnected

\* C4 as stated: switch_to_broker(target) returns and does not raise; it
\* returns True exactly when the selector ends connected with broker_type equal
\* to target; on the target it does nothing, and off it the current broker is
\* torn down before the target is attempted.
C4_SwitchComparesTargetAsGiven ==
    call.op = "switch_to_broker" =>
        /\ call.out.kind = "return"
        /\ call.out.value = "True" <=> (current_broker # None /\ broker_type = call.arg)
        /\ call.arg = call.pre_type => call.log = <<>>
        /\ (call.arg # call.pre_type /\ call.pre_type # None) =>
               (call.log # <<>> /\ call.log[1].ev = "teardown")

\* C4, amended: switch_to_broker(target) returns True or False and does not
\* raise; it compares target.upper(): it returns True exactly when the selector
\* ends connected with broker_type equal to target.upper(); already on that
\* broker it returns True and touches nothing; otherwise the current broker is
\* torn down (an error of its teardown is swallowed) before the one attempt, on
\* target.upper(), and a failed switch leaves the selector disconnected.
C4_SwitchComparesUpperCasedTarget ==
    call.op = "switch_to_broker" =>
        LET target == Upper(call.arg) IN
        /\ call.out \in {Return("True"), Return("False")}
        /\ call.out.value = "True" <=> (current_broker # None /\ broker_type = target)
        /\ target = call.pre_type => (call.log = <<>> /\ call.out.value = "True")
        /\ (target # call.pre_type /\ call.pre_type # None) =>
               (call.log # <<>> /\ call.log[1].ev = "teardown"
                /\ call.log[1].broker = call.pre_type)
        /\ \A i \in 1..Len(call.log) :
               \/ i = 1 /\ call.log[i].ev = "teardown"
               \/ call.log[i].ev = "try" /\ call.log[i].broker = target /\ i = Len(call.log)
        /\ call.out.value = "False" => NoBrokerFields

\* A lower-case target, off it: Alpaca's teardown raised, IBKR then connected.
C4_Witness ==
    /\ call.op = "switch_to_broker" /\ call.arg = "ibkr" /\ call.pre_type = "ALPACA"
    /\ Len(call.log) = 2 /\ ~call.log[1].ok
    /\ call.out = Return("True") /\ broker_type = "IBKR"

TickOnPosition(side) == tick.seen /\ tick.queried /\ tick.rep.side = side

\* C5: with broker position NONE and a ready signal the decision is BUY of
\* shares_per_trade when macd_position is ABOVE and a sell-side order (the
\* opening short) of shares_per_trade when it is BELOW, whatever crossover,
\* crossunder and last_action are.
C5_NoPositionOpens ==
    TickOnPosition("NONE") =>
        /\ tick.qty = t_cfg.shares_per_trade
        /\ tick.called
        /\ tick.sig.macd_position = "ABOVE" => (tick.action = "BUY" /\ tick.side = "BUY")
        /\ tick.sig.macd_position = "BELOW" => (tick.action = "SELL" /\ tick.side = "SELL")

\* No position, BELOW with a crossover flag, last_action already SELL: short again.
C5_Witness ==
    /\ TickOnPosition("NONE") /\ tick.rep.ok
    /\ tick.sig = Signal("BELOW", TRUE, FALSE) /\ tick.last_action = "SELL"
    /\ tick.action = "SELL" /\ tick.side = "SELL" /\ tick.qty > 1

\* C6: with broker position LONG of quantity q > 0, crossunder, or BELOW with
\* last_action other than SELL, gives one SELL of q + shares_per_trade; every
\* other case is HOLD and place_order is not called.
C6_LongSellsAndFlips ==
    TickOnPosition("LONG") =>
        IF tick.sig.crossunder
           \/ (tick.sig.macd_position = "BELOW" /\ tick.last_action # "SELL")
        THEN /\ tick.action = "SELL" /\ tick.side = "SELL"
             /\ tick.qty = tick.rep.qty + t_cfg.shares_per_trade
             /\ tick.called
        ELSE /\ tick.action = None /\ tick.qty = 0
             /\ ~tick.called /\ ~tick.ordered

\* LONG 2, BELOW with both flags set, last_action BUY, 2 shares per trade: SELL 4.
C6_Witness ==
    /\ TickOnPosition("LONG") /\ tick.rep.qty = 2 /\ t_cfg.shares_per_trade = 2
    /\ tick.sig = Signal("BELOW", TRUE, TRUE) /\ tick.last_action = "BUY"
    /\ tick.action = "SELL" /\ tick.qty = 4 /\ tick.ordered

\* C7: with broker position SHORT of quantity q < 0, crossover, or ABOVE with
\* last_action other than BUY, gives one BUY of |q| + shares_per_trade; every
\* other case is HOLD and place_order is not called.
C7_ShortCoversAndBuys ==
    TickOnPosition("SHORT") =>
        IF tick.sig.crossover
           \/ (tick.sig.macd_position = "ABOVE" /\ tick.last_action # "BUY")
        THEN /\ tick.action = "BUY" /\ tick.side = "BUY"
             /\ tick.qty = Abs(tick.rep.qty) + t_cfg.shares_per_trade
             /\ tick.called
        ELSE /\ tick.action = None /\ tick.qty = 0
             /\ ~tick.called /\ ~tick.ordered

\* SHORT 2, ABOVE without crossover, last_action SELL, 2 shares per trade: BUY 4.
C7_Witness ==
    /\ TickOnPosition("SHORT") /\ tick.rep.qty = -2 /\ t_cfg.shares_per_trade = 2
    /\ tick.sig = Signal("ABOVE", FALSE, FALSE) /\ tick.last_action = "SELL"
    /\ tick.action = "BUY" /\ tick.qty = 4 /\ tick.ordered

\* C8: over consecutive ticks, restarts included, on which the signal and the
\* position the broker reports (by a query that succeeded) do not change, at
\* most one order is submitted.
C8_OneOrderPerUnchangedState ==
    (tick.seen /\ tick.rep.ok) => run_orders <= 1

\* C9: an order place_order submits in the PRE_MARKET, AFTER_HOURS or OVERNIGHT
\* session is a LIMIT order with a limit price and extended_hours = True; a
\* MARKET order is submitted in the REGULAR session only.
C9_LimitOutsideRegular ==
    placed.submitted =>
        /\ placed.session \in {"PRE_MARKET", "AFTER_HOURS", "OVERNIGHT"} =>
               /\ placed.order.type = "LIMIT"
               /\ placed.order.limit_price # <<>>
               /\ placed.order.extended_hours
        /\ placed.order.type = "MARKET" => placed.session = "REGULAR"

\* An overnight order of a trader with extended_hours off, overnight_trading on.
C9_Witness ==
    /\ placed.submitted /\ placed.session = "OVERNIGHT"
    /\ ~t_cfg.extended_hours /\ t_cfg.overnight_trading
    /\ placed.order.type = "LIMIT" /\ placed.order.limit_price # <<>>

\* C10: every order the IBKR path hands to the broker outside the REGULAR
\* session is a LIMIT order, and an order request that carries a limit price
\* is submitted as a limit order at that price.
C10_IbkrLimitOutsideRegular ==
    \A i \in 1..Len(ib_orders) :
        /\ ib_orders[i].session # "REGULAR" => ib_orders[i].type = "LIMIT"
        /\ (call.op = "submit_order" /\ call.arg # None) =>
               (ib_orders[i].type = "LIMIT" /\ ib_orders[i].limit_price = call.arg)

\* The sessions the configuration t_cfg allows trading in.
Tradable(session) ==
    \/ session = "REGULAR"
    \/ session \in {"PRE_MARKET", "AFTER_HOURS"} /\ t_cfg.extended_hours
    \/ session = "OVERNIGHT" /\ t_cfg.overnight_trading

PlaceOrderCalled == placed.why # "not called"

\* C11: place_order submits an order only in a session the configuration
\* allows - REGULAR, PRE_MARKET or AFTER_HOURS with extended_hours, OVERNIGHT
\* with overnight_trading; in every other session, CLOSED included, it returns
\* None and submits nothing; REGULAR is never refused for its session.
C11_SessionGate ==
    PlaceOrderCalled =>
        /\ placed.submitted => Tradable(placed.session)
        /\ ~Tradable(placed.session) =>
               (~placed.submitted /\ placed.order = NoOrder
                /\ placed.why = "outside allowed hours")
        /\ Tradable(placed.session) => placed.why # "outside allowed hours"

\* An overnight call refused with extended_hours on and overnight_trading off.
C11_Witness ==
    /\ PlaceOrderCalled /\ placed.session = "OVERNIGHT"
    /\ t_cfg.extended_hours /\ ~t_cfg.overnight_trading
    /\ ~placed.submitted /\ placed.why = "outside allowed hours"

\* Monday = 0 .. Sunday = 6, as datetime.weekday() numbers the days.
SundayToThursday == {6, 0, 1, 2, 3}
MondayToFriday == {0, 1, 2, 3, 4}

\* C12: an instant at or after 20:00 is OVERNIGHT exactly when its day is
\* Sunday to Thursday, and an instant before 04:00 exactly when its day is
\* Monday to Friday; Friday night and Saturday night are never OVERNIGHT.
C12_OvernightSundayToThursday ==
    clock.seen =>
        /\ clock.dt.m >= 1200 => (clock.overnight <=> clock.dt.wd \in SundayToThursday)
        /\ clock.dt.m < 240 => (clock.overnight <=> clock.dt.wd \in MondayToFriday)
        /\ (240 <= clock.dt.m /\ clock.dt.m < 1200) => ~clock.overnight

\* The spread in tenths of a percent, as a fraction: (ask - bid) / bid * 1000,
\* taken as 0 when bid <= 0.
SpreadNum == IF priced.bid > 0 THEN (priced.ask - priced.bid) * 1000 ELSE 0
SpreadDen == IF priced.bid > 0 THEN priced.bid ELSE 1

\* The fraction b equals the fraction n / d clamped to [lo, hi].
IsClamped(b, n, d, lo, hi) ==
    IF n < lo * d THEN b.n = lo * b.d
    ELSE IF n > hi * d THEN b.n = hi * b.d
    ELSE b.n * d = n * b.d

\* C13: the buffer of a limit price place_order computes lies in [1.0%, 3.0%]
\* overnight and in [0.5%, 1.5%] otherwise; from a quote of the monitor it is
\* clamp(spread_pct, 1.0, 3.0) overnight and clamp(spread_pct / 2, 0.5, 1.5)
\* otherwise, the same for BUY and SELL.
C13_BufferClamped ==
    priced.seen =>
        LET b == priced.buffer IN
        /\ b.d > 0
        /\ IF priced.overnight
           THEN 10 * b.d <= b.n /\ b.n <= 30 * b.d
           ELSE 5 * b.d <= b.n /\ b.n <= 15 * b.d
        /\ priced.source = "monitor" =>
               IF priced.overnight
               THEN IsClamped(b, SpreadNum, SpreadDen, 10, 30)
               ELSE IsClamped(b, SpreadNum, 2 * SpreadDen, 5, 15)

\* A pre-market or after-hours SELL on a 2% spread: the buffer is 1%, half of it.
C13_Witness ==
    /\ priced.seen /\ priced.source = "monitor" /\ ~priced.overnight
    /\ priced.side = "SELL" /\ priced.bid = 100 /\ priced.ask = 102
    /\ priced.buffer.n = 10 * priced.buffer.d

PricedFromOrderedQuote == priced.seen /\ 0 < priced.bid /\ priced.bid <= priced.ask

C15_NoQuoteNoOrder ==
    /\ placed.quote \in {"none", "error"} =>
           (~placed.submitted /\ placed.order = NoOrder /\ placed.why = "no quote")
    /\ placed.order.type = "LIMIT" =>
           /\ placed.order.limit_price # <<>>
           /\ placed.given = <<>> => placed.quote \in {"monitor", "api"}
           /\ placed.given # <<>> => placed.order.limit_price = placed.given

\* An overnight call without a limit price whose quote lookup raised.
C15_Witness ==
    /\ placed.session = "OVERNIGHT" /\ placed.given = <<>> /\ placed.quote = "error"
    /\ placed.why = "no quote" /\ ~placed.submitted

\* C16: in both trading loops a pass for which the price source returns no
\* data (an empty frame in the IBKR loop, no quote in the trader's run) submits
\* no order and writes no strategy or trading state; the pass ends normally.
C16_NoDataNoOrderNoState ==
    /\ (call.op = "loop_tick" /\ call.out.value = "no real-time data") =>
           (ib_orders = <<>> /\ call.log = <<>> /\ call.out.kind = "return")
    /\ (tick.seen /\ ~tick.quoted) =>
           /\ ~tick.called /\ ~tick.ordered /\ ~tick.queried
           /\ tick.assigned = <<>>

\* A pass without a quote of a trader that holds a position from an earlier order.
C16_Witness ==
    /\ tick.seen /\ ~tick.quoted /\ tick.last_action = "SELL"
    /\ t_state.position_type = "SHORT" /\ run_orders = 0

\* C17: while the indicator warms up (macd_position is not available)
\* process_macd_signal submits no order, neither queries the position nor
\* changes the trading state, and returns False.
C17_WarmUpDoesNothing ==
    (tick.seen /\ tick.quoted /\ tick.sig.macd_position = None) =>
        /\ ~tick.queried /\ ~tick.called /\ ~tick.ordered
        /\ tick.assigned = <<>>
        /\ tick.ret = FALSE

\* A warm-up pass of a trader whose state an earlier order had set.
C17_Witness ==
    /\ tick.seen /\ tick.quoted /\ tick.sig.macd_position = None
    /\ tick.last_action = "BUY" /\ t_state.last_action = "BUY"
    /\ t_state.position_shares > 1

\* C18: process_macd_signal assigns last_action, last_signal_time,
\* position_type and position_shares exactly when place_order returned an
\* order, and returns True exactly then; an order that was rejected, not
\* permitted or left without a price, and a HOLD decision, leave all four
\* as they were and the method returns False.
C18_StateFollowsOrder ==
    (tick.seen /\ tick.quoted /\ tick.queried) =>
        /\ tick.ret <=> tick.ordered
        /\ tick.ordered =>
               /\ tick.called /\ tick.assigned # <<>>
               /\ tick.assigned[1].last_action = tick.action
               /\ tick.assigned[1].last_signal_time = "now"
               /\ tick.assigned[1].position_type
                      = (IF tick.action = "BUY" THEN "LONG" ELSE "SHORT")
               /\ tick.assigned[1].position_shares
                      = (IF tick.action = "BUY" THEN tick.qty ELSE -tick.qty)
        /\ ~tick.ordered => tick.assigned = <<>>

\* A SELL that place_order did not turn into an order: the state an earlier
\* BUY had set is still there.
C18_Witness ==
    /\ tick.seen /\ tick.quoted /\ tick.queried
    /\ tick.action = "SELL" /\ tick.called /\ ~tick.ordered /\ ~tick.ret
    /\ tick.last_action = "BUY" /\ t_state.last_action = "BUY"
    /\ t_state.position_type = "LONG"

\* A pass of the IBKR loop that reached _execute_ibkr_signal.
SignalExecuted == call.op = "loop_tick" /\ call.out.value = "executed"

\* C19: _execute_ibkr_signal writes StrategyState only when the action led to
\* a submitted order: when the submission failed (place_market_order returned
\* None or raised) or the action is not one of BUY, SHORT, COVER_AND_BUY and
\* SELL_AND_SHORT (HOLD, SELL), no StrategyState is saved.
C19_SaveOnlyAfterSubmittedOrder ==
    SignalExecuted =>
        /\ call.arg \notin StrategyActions => call.log = <<>>
        /\ ib_orders = <<>> => call.log = <<>>

\* A BUY whose order the broker did not take: nothing was saved.
C19_Witness ==
    /\ SignalExecuted /\ call.arg = "BUY" /\ ib_orders = <<>> /\ call.log = <<>>
    /\ extended_hours

\* C20: after every executed action (one that placed an order) the trading
\* loop persists a StrategyState record, and the record persisted holds at
\* least last_action, shares, last_signal_time and position_type.
C20_ExecutedActionPersistsState ==
    (SignalExecuted /\ call.arg \in StrategyActions /\ ib_orders # <<>>) =>
        /\ call.log # <<>>
        /\ {"last_action", "shares", "last_signal_time", "position_type"}
               \subseteq DOMAIN strategy_state

\* C21: on startup the trading loop reads the persisted state and initialises
\* last_action from it: once a pass has executed an action, last_action is that
\* action until the next pass, a restart of the process in between included.
C21_RestartKeepsLastAction ==
    tick.ordered => t_state.last_action = tick.action

\* A pass of the loop in which the connected broker could not be reached: Yahoo
\* had no data and the broker's own get_realtime_data raised.
BrokerFailedInLoop == call.op = "loop_tick" /\ call.out.value = "no real-time data"

\* C22: when the connected broker becomes unavailable while the continuous
\* loop runs, the loop eventually fails over to the other broker.
C22_LoopFailsOver == BrokerFailedInLoop ~> (broker_type = "ALPACA")

Interrupted == call.op = "SIGINT"

\* C23: on SIGINT the trading loop terminates, and before the process exits
\* the broker connection is torn down and the last known state is persisted.
C23_ShutdownTearsDownAndPersists ==
    Interrupted =>
        /\ sel_pc = "exited"
        /\ current_broker = None
        /\ \E i \in 1..Len(call.log) : call.log[i].ev = "teardown" /\ call.log[i].ok
        /\ \E i \in 1..Len(call.log) : call.log[i].ev = "save"

\* C24: no order submission is left partially done across a shutdown: when
\* SIGINT arrives during a two-step action (COVER_AND_BUY on a short position,
\* SELL_AND_SHORT on a long one), both of its orders have been submitted or
\* neither has when the process exits.
C24_TwoStepActionAllOrNothing ==
    (Interrupted /\ call.arg.planned = 2) => Len(ib_orders) \in {0, 2}

\* C25: on the first classification of a symbol the previous position is
\* UNKNOWN and crossover and crossunder are both false whatever the new
\* position; on every later sample crossover is true iff the previous position
\* was BELOW or UNKNOWN and the new one is ABOVE; equal MACD and signal values
\* keep the previous position and report no transition.
C25_CrossoverAfterFirstSample ==
    /\ signal_state.samples = 1 =>
           /\ signal_state.previous_position = "UNKNOWN"
           /\ ~signal_state.crossover /\ ~signal_state.crossunder
    /\ signal_state.samples > 1 =>
           (signal_state.crossover <=>
                (signal_state.previous_position \in {"BELOW", "UNKNOWN"}
                 /\ signal_state.macd_position = "ABOVE"))
    /\ (signal_state.samples >= 1 /\ signal_state.macd = signal_state.signal) =>
           /\ signal_state.macd_position = signal_state.previous_position
           /\ ~signal_state.crossover /\ ~signal_state.crossunder

\* A later sample that turns ABOVE after equal values had left the position UNKNOWN.
C25_Witness ==
    /\ signal_state.samples = 2 /\ signal_state.previous_position = "UNKNOWN"
    /\ signal_state.macd > signal_state.signal
    /\ signal_state.macd_position = "ABOVE" /\ signal_state.crossover

\* The number of session tests that hold of the instant last classified.
SessionTestsTrue ==
    (IF clock.market THEN 1 ELSE 0) + (IF clock.pre THEN 1 ELSE 0)
    + (IF clock.after THEN 1 ELSE 0) + (IF clock.overnight THEN 1 ELSE 0)

C27_RegularSessionMarketOrder ==
    placed.submitted =>
        /\ placed.session = "REGULAR" =>
               (placed.order.type = "MARKET" /\ placed.order.time_in_force = "DAY")
        /\ placed.order.type = "LIMIT" =>
               placed.session \in {"PRE_MARKET", "AFTER_HOURS", "OVERNIGHT"}

\* C28: the IBKR continuous loop submits orders only in a tradable session:
\* never in CLOSED, in PRE_MARKET and AFTER_HOURS only with extended_hours
\* enabled, in OVERNIGHT only with overnight_trading enabled; and a pass that
\* finds the market clock not open with extended_hours disabled fetches no
\* quotes and submits no orders.
C28_LoopTradesOnlyInTradableSession ==
    call.op = "loop_tick" =>
        /\ \A i \in DOMAIN ib_orders :
             /\ ib_orders[i].session # "CLOSED"
             /\ ib_orders[i].session \in {"PRE_MARKET", "AFTER_HOURS"} => extended_hours
             /\ ib_orders[i].session = "OVERNIGHT" => overnight_trading
        /\ (~ClockIsOpen(call.arg.dt) /\ ~extended_hours) =>
               (call.out.value = "market closed" /\ ib_orders = <<>>)

\* C29: IBKRTradingSystem.get_clock().is_open is True exactly when the instant
\* lies in the REGULAR session (a weekday, 09:30 <= t < 16:00), so that it
\* agrees with RealTimeMACDTrader.is_market_hours at every instant.
C29_ClockOpenIffRegularSession ==
    clock.seen =>
        /\ ClockIsOpen(clock.dt) <=> (clock.dt.wd \in 0..4 /\ 570 <= clock.dt.m /\ clock.dt.m < 960)
        /\ ClockIsOpen(clock.dt) <=> clock.market

\* C30: get_realtime_data consults Yahoo first and the connected broker only
\* when Yahoo raised or returned no history; when Yahoo yields data the broker
\* is not called; and when every source fails (no broker connected and a
\* yfinance that cannot be imported included) it returns an empty data frame:
\* it never raises.
C30_RealtimeDataFallsBackAndNeverRaises ==
    call.op = "get_realtime_data" =>
        /\ call.arg = "data" => (~call.delegated /\ call.out = Return("yahoo bar"))
        /\ call.delegated => call.arg \in {"no_history", "error", "import_error"}
        /\ call.out.kind = "return"
        /\ call.out.value \notin {"yahoo bar", "broker bar"} => call.out = Return("empty frame")

\* ------------------------------------------------ _execute_ibkr_signal alone
\* UnifiedTradingSystem._execute_ibkr_signal called with a signal, the broker
\* being IBKR.  The call's argument records the signal's action and shares,
\* the symbol's signed position, whether the alpaca enums could be imported
\* and whether ib.placeOrder accepted the orders.
ExecuteSignal ==
    /\ sel_pc = "live"
    /\ broker_type = "IBKR"
    /\ \E action \in SignalActions, dt \in {At(0, 570), At(0, 1200)} :
       \E alpaca_enums \in Relevant(action # "", BOOLEAN, TRUE) :
       \E shares \in 1..MaxShares,
          pos \in Relevant(action \in {"COVER_AND_BUY", "SELL_AND_SHORT"} /\ alpaca_enums,
                           -MaxQty..MaxQty, 0),
          po \in Relevant(action \in StrategyActions /\ alpaca_enums, PlaceOutcomes, "placed") :
         LET r == IF action = ""
                  THEN [orders |-> <<>>, saved |-> FALSE, state |-> SignalState(action, shares)]
                  ELSE ExecuteIbkrSignal(action, shares, pos, alpaca_enums, dt, po) IN
         /\ call' = Call("_execute_ibkr_signal",
                         [action |-> action, shares |-> shares, pos |-> pos,
                          enums |-> alpaca_enums, accepted |-> po = "placed"],
                         Return(None),
                         IF r.saved THEN <<Event("save", "IBKR", TRUE)>> ELSE <<>>, TRUE)
         /\ ib_orders' = r.orders
         /\ strategy_state' = IF r.saved THEN r.state ELSE strategy_state
    /\ UNCHANGED <<sel_pc, force_broker, current_broker, broker_type, trading_client,
                   data_client, extended_hours, overnight_trading, trader_vars, ib_sys>>

NextExecute == ExecuteSignal

SpecExecute == InitLoopGate /\ [][NextExecute]_vars

\* The side and quantity of each order, in the order of submission.
Legs(orders) == [i \in 1..Len(orders) |-> <<orders[i].action, orders[i].qty>>]

\* C31: for COVER_AND_BUY with a short position of c, _execute_ibkr_signal
\* submits a BUY of c and then a BUY of the signal's shares, and with no short
\* position only the BUY of shares; SELL_AND_SHORT is symmetric, a SELL of the
\* long quantity first and then a SELL of shares.
C31_TwoStepOrdersInOrder ==
    (call.op = "_execute_ibkr_signal" /\ call.arg.enums /\ call.arg.accepted) =>
        /\ call.arg.action = "COVER_AND_BUY" =>
               Legs(ib_orders) = IF call.arg.pos < 0
                                 THEN <<<<"BUY", -call.arg.pos>>, <<"BUY", call.arg.shares>>>>
                                 ELSE <<<<"BUY", call.arg.shares>>>>
        /\ call.arg.action = "SELL_AND_SHORT" =>
               Legs(ib_orders) = IF call.arg.pos > 0
                                 THEN <<<<"SELL", call.arg.pos>>, <<"SELL", call.arg.shares>>>>
                                 ELSE <<<<"SELL", call.arg.shares>>>>

\* ------------------------------------------- the loop over several symbols
\* What one symbol can meet in a pass: a bar and a BUY signal, a bar and no
\* action, no data from any source, get_realtime_data raising, and a two-step
\* action that fails inside _execute_ibkr_signal.
SymbolCase(yahoo, bo, action, pos) ==
    [yahoo |-> yahoo, bo |-> bo, action |-> action, shares |-> 1, pos |-> pos,
     alpaca_enums |-> TRUE, po |-> "placed"]

SymbolCases ==
    {SymbolCase("data", "result", "BUY", 0), SymbolCase("data", "result", "", 0),
     SymbolCase("no_history", "raise", "BUY", 0), SymbolCase("import_error", "raise", "BUY", 0),
     SymbolCase("data", "result", "COVER_AND_BUY", -1)}

\* A variant of the loop over symbols in which an error or missing data for
\* one symbol ends the pass.
ProcessSymbolsStopAtError(dt, xs) ==
    LET one(i) == LoopIteration(dt, xs[i].yahoo, xs[i].bo, xs[i].action, xs[i].shares,
                                xs[i].pos, xs[i].alpaca_enums, xs[i].po)
        failed(i) == one(i).out.value \in {"error processing symbol", "no real-time data"} IN
    [i \in DOMAIN xs |->
        IF \E j \in 1..(i - 1) : failed(j)
        THEN [orders |-> <<>>, saved |-> FALSE, state |-> one(i).state,
              out |-> Return("skipped")]
        ELSE one(i)]

\* The for loop of lines 619-655: each symbol is processed inside its own
\* try/except Exception, and "continue" on an empty frame moves to the next
\* symbol, so every symbol gets its pass whatever happened to the others.
ProcessSymbols(dt, xs) ==
    [i \in DOMAIN xs |->
        LoopIteration(dt, xs[i].yahoo, xs[i].bo, xs[i].action, xs[i].shares,
                      xs[i].pos, xs[i].alpaca_enums, xs[i].po)]

\* The orders of the symbols' passes, in the order of submission.
RECURSIVE AllOrders(_)
AllOrders(rs) ==
    IF rs = <<>> THEN <<>> ELSE rs[1].orders \o AllOrders(Tail(rs))

\* One iteration of the while loop over MaxSymbols symbols.  The call's
\* argument records whether the gate of line 613 let the iteration through
\* and what each symbol met; its outcome is the outcome of each symbol's pass.
\* strategy_state is the state file of the first symbol.
LoopTickSymbols ==
    /\ sel_pc = "live"
    /\ broker_type = "IBKR"
    /\ \E dt \in {At(0, 570), At(0, 1200), At(5, 570)} :
       \E xs \in Relevant(ClockIsOpen(dt) \/ extended_hours, [1..MaxSymbols -> SymbolCases],
                          [i \in 1..MaxSymbols |-> SymbolCase("data", "result", "", 0)]) :
         LET rs == ProcessSymbols(dt, xs) IN
         /\ call' = Call("loop_iteration",
                         [open |-> ClockIsOpen(dt) \/ extended_hours, symbols |-> xs],
                         Return([i \in DOMAIN rs |-> rs[i].out.value]),
                         IF rs[1].saved THEN <<Event("save", "IBKR", TRUE)>> ELSE <<>>, TRUE)
         /\ ib_orders' = AllOrders(rs)
         /\ strategy_state' = IF rs[1].saved THEN rs[1].state ELSE strategy_state
    /\ UNCHANGED <<sel_pc, force_broker, current_broker, broker_type, trading_client,
                   data_client, extended_hours, overnight_trading, trader_vars, ib_sys>>

NextSymbols == LoopTickSymbols

SpecSymbols == InitLoopGate /\ [][NextSymbols]_vars

\* A symbol's pass that ended in an error or found no data.
SymbolFailed(out) == out \in {"error processing symbol", "no real-time data"}

\* C32: within one iteration of the continuous loop an exception or missing
\* data for one symbol does not prevent the remaining symbols from being
\* processed in the same iteration, and no error of a tick terminates the
\* loop: it is still running, to retry at the next interval.
C32_SymbolErrorsAreAbsorbed ==
    (call.op = "loop_iteration" /\ call.arg.open) =>
        /\ sel_pc = "live"
        /\ \A i \in DOMAIN call.arg.symbols : \A j \in DOMAIN call.arg.symbols :
             (i < j /\ SymbolFailed(call.out.value[i])) =>
                 /\ call.out.value[j] # "skipped"
                 /\ (call.arg.symbols[j].yahoo = "data" /\ call.arg.symbols[j].action # "") =>
                        call.out.value[j] = "executed"

\* An iteration in which get_realtime_data raised for the first symbol and the
\* second symbol's BUY was still submitted.
C32_Witness ==
    /\ call.op = "loop_iteration" /\ call.arg.open
    /\ call.out.value[1] = "error processing symbol"
    /\ call.out.value[2] = "executed"
    /\ Len(ib_orders) = 1
    /\ sel_pc = "live"

\* ---------------------------------------------------- IBKRTradingSystem
\* The operations of the IBKR system that open with _ensure_connected, and the
\* neutral value each returns when it cannot answer.
IbOperations ==
    {"get_account_info", "get_all_positions", "get_historical_data", "get_realtime_data",
     "place_market_order", "is_paper_trading"}

NeutralValue(op) ==
    CASE op = "get_account_info" -> "{}"
      [] op = "get_all_positions" -> "[]"
      [] op \in {"get_historical_data", "get_realtime_data"} -> "empty frame"
      [] op = "place_market_order" -> "None"
      [] op = "is_paper_trading" -> "False"

\* How ib.connect can end.
ConnectOutcomes == {"ok", "refused"}

\* connect(), lines 72-92: when not connected, ib.connect and True, or False
\* when it raised; when already connected the if is skipped and the method
\* falls off its end, returning None.
IbConnectResult(s, oc) ==
    IF ~s.is_connected
    THEN IF oc = "ok"
         THEN [is_connected |-> TRUE, session_open |-> TRUE, ret |-> "True", connects |-> 1]
         ELSE [is_connected |-> FALSE, session_open |-> s.session_open, ret |-> "False",
               connects |-> 1]
    ELSE [is_connected |-> TRUE, session_open |-> s.session_open, ret |-> "None",
          connects |-> 0]

\* _ensure_connected, lines 104-108
IbEnsureConnected(s, oc) ==
    IF ~s.is_connected
    THEN IbConnectResult(s, oc)
    ELSE [is_connected |-> TRUE, session_open |-> s.session_open, ret |-> "True",
          connects |-> 0]

\* Whether Python takes a returned value for true.
Truthy(ret) == ret \in {"True", "result"}

\* A variant of an operation that goes on to the API whatever _ensure_connected said.
IbOperationResultUnguarded(op, s, oc, api) ==
    LET e == IbEnsureConnected(s, oc)
        failed == api = "error" \/ ~e.session_open IN
    [is_connected |-> e.is_connected, session_open |-> e.session_open, op |-> op,
     was_connected |-> s.is_connected,
     ret |-> IF failed THEN NeutralValue(op) ELSE "result",
     connects |-> e.connects, api_calls |-> 1, api_error |-> failed]

\* An operation of the IBKR system on state s: "if not self._ensure_connected():
\* return <neutral>", then the API call inside try / except Exception, which
\* returns the neutral value too.  api is what the API does when the session
\* is up; on a session that dropped behind is_connected it raises.
IbOperationResult(op, s, oc, api) ==
    LET e == IbEnsureConnected(s, oc)
        failed == api = "error" \/ ~e.session_open IN
    IF ~Truthy(e.ret)
    THEN [is_connected |-> e.is_connected, session_open |-> e.session_open, op |-> op,
          was_connected |-> s.is_connected, ret |-> NeutralValue(op),
          connects |-> e.connects, api_calls |-> 0, api_error |-> FALSE]
    ELSE [is_connected |-> e.is_connected, session_open |-> e.session_open, op |-> op,
          was_connected |-> s.is_connected,
          ret |-> IF failed THEN NeutralValue(op) ELSE "result",
          connects |-> e.connects, api_calls |-> 1, api_error |-> failed]

\* A call of one of the operations.
IbCall ==
    /\ \E op \in IbOperations :
       \E oc \in Relevant(~ib_sys.is_connected, ConnectOutcomes, "ok") :
       \E api \in Relevant(ib_sys.is_connected \/ oc = "ok", {"ok", "error"}, "ok") :
         ib_sys' = IbOperationResult(op, ib_sys, oc, api)
    /\ UNCHANGED <<sel_pc, force_broker, current_broker, broker_type, trading_client,
                   data_client, extended_hours, overnight_trading, call, ib_orders,
                   strategy_state, trader_vars>>

\* system.connect()
IbConnect ==
    /\ \E oc \in Relevant(~ib_sys.is_connected, ConnectOutcomes, "ok") :
         LET r == IbConnectResult(ib_sys, oc) IN
         ib_sys' = [is_connected |-> r.is_connected, session_open |-> r.session_open,
                    op |-> "connect", was_connected |-> ib_sys.is_connected, ret |-> r.ret,
                    connects |-> r.connects, api_calls |-> 0, api_error |-> FALSE]
    /\ UNCHANGED <<sel_pc, force_broker, current_broker, broker_type, trading_client,
                   data_client, extended_hours, overnight_trading, call, ib_orders,
                   strategy_state, trader_vars>>

\* system.disconnect(), lines 94-102: ib.disconnect() when connected; when it
\* raises, the except clause logs and is_connected stays True.
IbDisconnect ==
    /\ \E do \in Relevant(ib_sys.is_connected, {"ok", "raise"}, "ok") :
         ib_sys' = [is_connected |-> ib_sys.is_connected /\ do = "raise",
                    session_open |-> ib_sys.session_open /\ do = "raise",
                    op |-> "disconnect", was_connected |-> ib_sys.is_connected,
                    ret |-> "None", connects |-> 0, api_calls |-> 0, api_error |-> FALSE]
    /\ UNCHANGED <<sel_pc, force_broker, current_broker, broker_type, trading_client,
                   data_client, extended_hours, overnight_trading, call, ib_orders,
                   strategy_state, trader_vars>>

\* TWS or the network drops the session; is_connected is not told.
IbSessionLost ==
    /\ ib_sys.session_open
    /\ ib_sys' = [ib_sys EXCEPT !.session_open = FALSE]
    /\ UNCHANGED <<sel_pc, force_broker, current_broker, broker_type, trading_client,
                   data_client, extended_hours, overnight_trading, call, ib_orders,
                   strategy_state, trader_vars>>

NextIbSys ==
    \/ IbCall
    \/ IbConnect
    \/ IbDisconnect
    \/ IbSessionLost

SpecIbSys == InitLoopGate /\ [][NextIbSys]_vars

\* C33: each of get_account_info, get_all_positions, get_historical_data,
\* get_realtime_data, place_market_order and is_paper_trading first attempts
\* to connect when the system is not connected, and on a failed connection or
\* an API error returns its neutral value instead of raising; no API call is
\* made when the connection attempt failed.
C33_OperationsDegradeToNeutralValue ==
    ib_sys.op \in IbOperations =>
        /\ ib_sys.connects = (IF ib_sys.was_connected THEN 0 ELSE 1)
        /\ ib_sys.ret \in {"result", NeutralValue(ib_sys.op)}
        /\ (~ib_sys.was_connected /\ ~ib_sys.is_connected) =>
               (ib_sys.api_calls = 0 /\ ib_sys.ret = NeutralValue(ib_sys.op))
        /\ ib_sys.api_error => ib_sys.ret = NeutralValue(ib_sys.op)

\* An operation whose connection attempt failed.
C33_Witness ==
    /\ ib_sys.op = "get_all_positions"
    /\ ~ib_sys.was_connected /\ ~ib_sys.is_connected
    /\ ib_sys.connects = 1 /\ ib_sys.api_calls = 0 /\ ib_sys.ret = "[]"

\* C38: IBKRTradingSystem.connect() returns True exactly when is_connected is
\* True after the call, also on an already connected system (where no second
\* connection is opened), and returns False with is_connected False when the
\* attempt fails; so _ensure_connected lets every operation of a connected
\* system through to the API.
C38_ConnectReturnsConnectedness ==
    /\ ib_sys.op = "connect" =>
           /\ (ib_sys.ret = "True") <=> ib_sys.is_connected
           /\ ib_sys.was_connected => ib_sys.connects = 0
           /\ ~ib_sys.is_connected => ib_sys.ret = "False"
    /\ (ib_sys.op \in IbOperations /\ ib_sys.was_connected) => ib_sys.api_calls = 1

\* The delegated operations that open with the no-broker guard.
GuardedOperations == DelegatedOperations \ {"get_realtime_data"}

\* C34: after switch_to_broker returns False the selector is disconnected: the
\* broker connected before has been torn down and is not restored, also when
\* the target's name is not recognised; is_connected() is False, and from then
\* on every operation that opens with the no-broker guard fails with it, until
\* a reconnect or a switch connects a broker.
C34_FailedSwitchLeavesDisconnected ==
    [][/\ (call'.op = "switch_to_broker" /\ call'.out = Return("False")) =>
              /\ current_broker' = None /\ broker_type' = None
              /\ trading_client' = None /\ data_client' = None
              /\ current_broker # None =>
                     (call'.log # <<>> /\ call'.log[1].ev = "teardown"
                      /\ call'.log[1].broker = broker_type)
       /\ (current_broker = None /\ call'.op \in GuardedOperations) =>
              (call'.out = NoBrokerConnected /\ current_broker' = None)
       /\ (sel_pc = "live" /\ current_broker = None /\ current_broker' # None) =>
              (call'.op \in {"reconnect", "switch_to_broker"} /\ call'.out.kind = "return")
      ]_vars

\* A switch from IBKR to a name that is no broker: IBKR was torn down, nothing
\* was attempted, the selector is disconnected.
C34_Witness ==
    /\ call.op = "switch_to_broker" /\ call.arg = "TDA" /\ call.pre_type = "IBKR"
    /\ call.out = Return("False")
    /\ Len(call.log) = 1 /\ call.log[1].ev = "teardown"
    /\ current_broker = None /\ broker_type = None

\* BrokerSelector.is_connected(), line 133
IsConnected == current_broker # None

\* The fields as _try_ibkr and _try_alpaca set them.
IbkrFields == TryIbkr(Disconnected, "connected").f
AlpacaFields == TryAlpaca(Disconnected, "account").f

\* C35: in every state reached by construction, switch_to_broker, reconnect
\* and disconnect, current_broker, broker_type, trading_client and data_client
\* are all unset or all set for one broker, broker_type being IBKR or ALPACA,
\* and is_connected() is True iff broker_type is not None.
C35_FieldsSetTogether ==
    sel_pc # "unbuilt" =>
        /\ Fields \in {Disconnected, IbkrFields, AlpacaFields}
        /\ IsConnected <=> broker_type # None
        /\ broker_type # None => broker_type \in {"IBKR", "ALPACA"}

\* A disconnect in which the Alpaca system's teardown raised: all four fields
\* are still those of Alpaca.
C35_Witness ==
    /\ call.op = "disconnect" /\ call.out.kind = "raise"
    /\ Fields = AlpacaFields /\ IsConnected

\* C37: after BrokerSelector.disconnect() the selector is disconnected
\* (is_connected() False, broker_type None) even when the broker's teardown
\* raises, and disconnect() on a disconnected selector does nothing and does
\* not raise.
C37_DisconnectAlwaysDisconnects ==
    call.op = "disconnect" =>
        /\ ~IsConnected /\ broker_type = None
        /\ call.out.kind = "return"
        /\ call.pre_type = None => call.log = <<>>

\* ------------------------------------------------- probing for brokers
\* get_available_brokers, lines 186-222: a fresh IBKRTradingSystem is
\* connected and, when that worked, disconnected again; a fresh
\* AlpacaTradingSystem is asked for its account and then dropped.  Both bare
\* except clauses swallow every error.  The log lists what the probe did to
\* broker sessions.
ProbeBrokers(oi, oa) ==
    [available |-> (IF oi = "connected" THEN {"IBKR"} ELSE {})
                       \cup (IF oa = "account" THEN {"ALPACA"} ELSE {}),
     log |-> <<Event("probe", "IBKR", oi = "connected")>>
                 \o (IF oi = "connected" THEN <<Event("probe_teardown", "IBKR", TRUE)>> ELSE <<>>)
                 \o <<Event("probe", "ALPACA", oa = "account")>>]

\* BrokerSelector.get_available_brokers
GetAvailableBrokers ==
    /\ sel_pc = "live"
    /\ \E oi \in IbkrOutcomes, oa \in AlpacaOutcomes :
         LET p == ProbeBrokers(oi, oa) IN
         call' = Call("get_available_brokers", None, Return(p.available), p.log, FALSE)
    /\ ib_orders' = <<>>
    /\ UNCHANGED <<sel_pc, force_broker, current_broker, broker_type, trading_client,
                   data_client, extended_hours, overnight_trading,
                   strategy_state, trader_vars, ib_sys>>

\* BrokerSelector.get_status, lines 224-235
GetStatus ==
    /\ sel_pc = "live"
    /\ \E oi \in IbkrOutcomes, oa \in AlpacaOutcomes :
         LET p == ProbeBrokers(oi, oa) IN
         call' = Call("get_status", None,
                      Return([current_broker |-> broker_type,
                              is_connected |-> current_broker # None,
                              force_broker |-> force_broker,
                              available_brokers |-> p.available]),
                      p.log, FALSE)
    /\ ib_orders' = <<>>
    /\ UNCHANGED <<sel_pc, force_broker, current_broker, broker_type, trading_client,
                   data_client, extended_hours, overnight_trading,
                   strategy_state, trader_vars, ib_sys>>

NextSessions ==
    \/ Construct
    \/ SwitchToBroker
    \/ Reconnect
    \/ Disconnect
    \/ GetStatus
    \/ GetAvailableBrokers

SpecSessions == Init /\ [][NextSessions]_vars

\* The broker sessions open after the first i steps of the last call, the
\* selector having held at most its current broker's session before it: a
\* successful attempt or probe opens one, a successful teardown closes one.
OpenSessions(i) ==
    (IF call.pre_type # None THEN 1 ELSE 0)
    + Cardinality({j \in 1..i : call.log[j].ev \in {"try", "probe"} /\ call.log[j].ok})
    - Cardinality({j \in 1..i : call.log[j].ev \in {"teardown", "probe_teardown"}
                                  /\ call.log[j].ok})

\* C36: through construction, switch_to_broker, reconnect, get_status,
\* get_available_brokers and disconnect at most one broker session is open at
\* a time: a session that is no longer the selector's current broker has been
\* disconnected, and probing availability opens no second session next to the
\* current one.
C36_AtMostOneSession ==
    call.op \in {"__init__", "switch_to_broker", "reconnect", "disconnect", "get_status",
                 "get_available_brokers"} =>
        /\ \A i \in 0..Len(call.log) : OpenSessions(i) <= 1
        /\ sel_pc = "live" =>
               OpenSessions(Len(call.log)) = (IF current_broker # None THEN 1 ELSE 0)

\* C39: when the broker position query fails during a tick,
\* process_macd_signal submits no order in that tick: the failed query is not
\* taken for a flat position and triggers no opening BUY or short sale.
C39_FailedQuerySubmitsNothing ==
    (tick.seen /\ tick.queried /\ ~tick.rep.ok) =>
        (~tick.called /\ ~tick.ordered /\ tick.action = None)

\* The signed quantity of the order a tick submitted.
SignedOrder == IF tick.action = "BUY" THEN tick.qty ELSE -tick.qty

\* C40: after every executed order the recorded trading state equals the net
\* position at the broker once the order has filled: position_shares is the
\* signed net quantity (after flipping a LONG of q, -shares_per_trade and not
\* -(q + shares_per_trade)), and position_type is LONG iff it is positive and
\* SHORT iff it is negative.
C40_StateIsNetPosition ==
    (tick.seen /\ tick.ordered /\ tick.rep.ok) =>
        LET net == tick.rep.qty + SignedOrder
            st == tick.assigned[1] IN
        /\ st.position_shares = net
        /\ st.position_type = "LONG" <=> net > 0
        /\ st.position_type = "SHORT" <=> net < 0

====
